---- MODULE Spec2Model ----
(***************************************************************************)
(* Model of the quota / translation-flow / language-enrollment core of     *)
(* translate-line-bot.  One tenant (LINE group) is modelled; several       *)
(* webhook invocations for it run concurrently and meet only in the        *)
(* datastore.  Every datastore call is one atomic step.                    *)
(***************************************************************************)
EXTENDS Integers, Sequences, FiniteSets, TLC

\* ------------------------------------------------------------------ bounds
MaxMessages == 3
FreeQuota == 1
ProQuota == 2
TranslationRetry == 2
MaxGroupLanguages == 2
MaxPrompts == 2
MaxDeliveries == 2
MaxCommands == 1
MaxRetries == 3
MaxTextLen == 2

\* Two webhook invocations of the tenant can be in flight at once.
Workers == {"w1", "w2"}

\* --------------------------------------------------------------- constants
FallbackDays == 31

\* LeaveHandler.handle: for attempt in range(3)
LeaveAttempts == 3

\* _encode_postback_payload: max_bytes
MaxBytes == 280

None == "none"
NoDate == [day |-> -1, hr |-> 0]
NoKey == -1

VARIABLES
    usage,          \* group_usage_counters.translation_count, by period key
    noticePlan,     \* group_usage_counters.limit_notice_plan, by period key
    enabled,        \* group_settings.translation_enabled
    sub,            \* group_subscriptions row (status, period start, period end)
    now,            \* the wall clock (UTC)
    wk,             \* per invocation: position in the handler and its locals
    handled,        \* number of message events received so far
    noticeCount,    \* history: limit notices sent, by period key and plan
    markerSets,     \* history: set_limit_notice_plan calls, by period key and plan
    atUpgrade,      \* history: notices already sent when the tenant became paid
    gate,           \* group_members marker row: exists, last_completed_at set, row lock
    languages,      \* group_languages of the tenant, in insertion order
    prompts,        \* the confirm tokens issued so far (their language lists)
    proposer,       \* the invocation running LanguageSettingsService.propose
    cf,             \* per postback delivery: position in the handler and its locals
    lc,             \* the invocation running a language-settings command or a re-invite
    hist,           \* history: completions, enable writes and replies per gate epoch
    rp,             \* one RetryPolicy.run: its policy, loop position and outcome
    pb,             \* one postback payload: encoded into a token and decoded again
    tg,             \* one call of TranslationService.translate
    lv              \* one leave event in LeaveHandler.handle

quotaVars == <<usage, noticePlan, sub, now, wk, handled, noticeCount, markerSets, atUpgrade>>

enrollVars == <<gate, languages, prompts, proposer, cf, lc, hist>>

sideVars == <<tg, lv>>

vars == <<usage, noticePlan, enabled, sub, now, wk, handled, noticeCount, markerSets, atUpgrade,
          gate, languages, prompts, proposer, cf, lc, hist, rp, pb, tg, lv>>

\* ---------------------------------------------------------------- calendar
\* First days of the months of a non-leap year, as day-of-year indexes.
MonthStarts == {0, 31, 59, 90}

MonthFirst(d) == CHOOSE s \in MonthStarts : s <= d /\ \A t \in MonthStarts : t <= d => t <= s

DateOf(dt) == dt.day

MinusDays(dt, n) == [dt EXCEPT !.day = @ - n]

\* ------------------------------------------------------------ period key
ComputePeriodKey(paid, period_start, period_end, clock) ==
    LET anchor == IF period_start # NoDate THEN period_start
                  ELSE IF period_end # NoDate THEN MinusDays(period_end, FallbackDays)
                  ELSE NoDate
    IN IF paid /\ anchor # NoDate THEN DateOf(anchor) ELSE MonthFirst(DateOf(clock))

IsPaid(status) == status \in {"active", "trialing"}

\* The subscription rows the payment webhook can leave behind.
SubNone == [status |-> None, period_start |-> NoDate, period_end |-> NoDate]
SubActiveAligned == [status |-> "active", period_start |-> [day |-> 31, hr |-> 9], period_end |-> [day |-> 59, hr |-> 9]]
SubActiveNoStart == [status |-> "active", period_start |-> NoDate, period_end |-> [day |-> 67, hr |-> 23]]
SubCanceled == [status |-> "canceled", period_start |-> NoDate, period_end |-> [day |-> 67, hr |-> 23]]
SubChoices == {SubNone, SubActiveAligned, SubActiveNoStart, SubCanceled}

Clock0 == [day |-> 40, hr |-> 12]

PeriodKeys == {ComputePeriodKey(IsPaid(s.status), s.period_start, s.period_end, Clock0) : s \in SubChoices}

Plans == {"free", "pro"}

\* ------------------------------------------------------------- QuotaService
Decision(allowed, should_notify, stop_translation, u, limit, period_key, plan_key) ==
    [allowed |-> allowed, should_notify |-> should_notify, stop_translation |-> stop_translation,
     usage |-> u, limit |-> limit, period_key |-> period_key, plan_key |-> plan_key]

NoDecision == Decision(FALSE, FALSE, FALSE, -1, -1, NoKey, None)

\* Variant: the at-limit early return compares with > instead of >=
EvaluateEarlyStrict(paid, limit, plan_key, period_key, notice_plan, current_usage) ==
    IF ~paid /\ notice_plan = plan_key
    THEN Decision(FALSE, FALSE, FALSE, current_usage, limit, period_key, plan_key)
    ELSE IF current_usage > limit
    THEN Decision(FALSE, notice_plan # plan_key, ~paid, current_usage, limit, period_key, plan_key)
    ELSE NoDecision

\* Variant: no early return for the already notified unpaid tenant
EvaluateEarlyNoShortCircuit(paid, limit, plan_key, period_key, notice_plan, current_usage) ==
    IF current_usage >= limit
    THEN Decision(FALSE, notice_plan # plan_key, ~paid, current_usage, limit, period_key, plan_key)
    ELSE NoDecision

\* Variant: the at-limit early return stops translation for every plan
EvaluateEarlyStopsAll(paid, limit, plan_key, period_key, notice_plan, current_usage) ==
    IF ~paid /\ notice_plan = plan_key
    THEN Decision(FALSE, FALSE, FALSE, current_usage, limit, period_key, plan_key)
    ELSE IF current_usage >= limit
    THEN Decision(FALSE, notice_plan # plan_key, TRUE, current_usage, limit, period_key, plan_key)
    ELSE NoDecision

\* evaluate, before the increment: the two early returns.
EvaluateEarly(paid, limit, plan_key, period_key, notice_plan, current_usage) ==
    IF ~paid /\ notice_plan = plan_key
    THEN Decision(FALSE, FALSE, FALSE, current_usage, limit, period_key, plan_key)
    ELSE IF current_usage >= limit
    THEN Decision(FALSE, notice_plan # plan_key, ~paid, current_usage, limit, period_key, plan_key)
    ELSE NoDecision

\* Variant: reaching the limit exactly does not ask for a notice
EvaluateAfterIncrementSilent(paid, limit, plan_key, period_key, notice_plan, usage_after) ==
    IF usage_after > limit
    THEN Decision(FALSE, notice_plan # plan_key, ~paid, usage_after, limit, period_key, plan_key)
    ELSE Decision(TRUE, FALSE, FALSE, usage_after, limit, period_key, plan_key)

\* evaluate, after increment_usage returned usage_after.
EvaluateAfterIncrement(paid, limit, plan_key, period_key, notice_plan, usage_after) ==
    IF usage_after > limit
    THEN Decision(FALSE, notice_plan # plan_key, ~paid, usage_after, limit, period_key, plan_key)
    ELSE IF usage_after = limit
    THEN Decision(TRUE, notice_plan # plan_key, FALSE, usage_after, limit, period_key, plan_key)
    ELSE Decision(TRUE, FALSE, FALSE, usage_after, limit, period_key, plan_key)

\* Variant: the upsert adds the increment twice
IncrementUsageTwice(u, period_key, increment) == [u EXCEPT ![period_key] = @ + increment + increment]

\* NeonMessageRepository.increment_usage: upsert, count + increment, returning.
IncrementUsage(u, period_key, increment) == [u EXCEPT ![period_key] = @ + increment]

\* Variant: a rollback that takes the increment off again
RollbackUsageDecrements(u, period_key, increment) ==
    [raised |-> None, usage |-> [u EXCEPT ![period_key] = @ - increment]]

\* Variant: the rollback takes the increment off twice
RollbackUsageTwice(u, period_key, increment) ==
    [raised |-> None, usage |-> [u EXCEPT ![period_key] = @ - (2 * increment)]]

\* TranslationFlowService._rollback_usage: QuotaService defines no rollback,
\* so the attribute lookup raises and the counter is not touched.
RollbackUsage(u, period_key, increment) ==
    IF increment <= 0
    THEN [raised |-> None, usage |-> u]
    ELSE [raised |-> "AttributeError", usage |-> u]

\* ------------------------------------------------------- reply composition
\* A translation result is "text" (a translation) or "echo" (the source
\* text repeated, which strip_source_echo turns into the empty string).
TranslationChoices == {<<>>, <<"text">>, <<"echo">>, <<"echo", "text">>}

TranslationErrors == {"GeminiRateLimitError", "Timeout", "RuntimeError"}

RECURSIVE FormatLines(_)
FormatLines(trs) ==
    IF trs = <<>> THEN <<>>
    ELSE IF Head(trs) = "text" THEN <<"text">> \o FormatLines(Tail(trs))
    ELSE FormatLines(Tail(trs))

\* build_translation_reply: the joined non-blank lines ("" when none is left)
BuildTranslationReply(trs) == IF FormatLines(trs) = <<>> THEN "" ELSE "lines"

\* RetryPolicy.__init__: retries = max(1, retries)
Retries == IF TranslationRetry >= 1 THEN TranslationRetry ELSE 1

\* What one call of the translation port can do: return results or raise.
AttemptOutcomes ==
    {[ok |-> TRUE, trs |-> t, err |-> None] : t \in TranslationChoices}
    \cup {[ok |-> FALSE, trs |-> <<>>, err |-> e] : e \in TranslationErrors}

\* What the successive calls of the operation do, one entry per possible
\* attempt (entries after a successful call are never consulted).
AttemptSeqs ==
    {s \in [1..Retries -> AttemptOutcomes] : \A i \in 2..Retries : s[i-1].ok => s[i] = s[i-1]}

\* RetryPolicy.run, from attempt number attempt (0-based); outs[i] is what
\* the i-th call of the operation does.  Every exception is retried while
\* attempts remain; after the loop the last error is raised.
RECURSIVE RetryPolicyRun(_, _)
RetryPolicyRun(outs, attempt) ==
    LET o == outs[attempt + 1] IN
    IF o.ok THEN [raised |-> None, value |-> o.trs, calls |-> attempt + 1]
    ELSE IF attempt + 1 < Retries THEN RetryPolicyRun(outs, attempt + 1)
    ELSE [raised |-> o.err, value |-> <<>>, calls |-> attempt + 1]

\* ================================================== language enrollment
Deliveries == 1..MaxDeliveries

\* The gate is re-opened by every prompt and every reset.
Epochs == 0..(MaxPrompts + MaxCommands)

NoList == <<"?">>

\* str.lower() on the language codes of the model
Lower(code) ==
    IF code = "JA" THEN "ja" ELSE IF code = "EN" THEN "en" ELSE IF code = "FR" THEN "fr" ELSE code

\* What the preference analyzer can report as supported languages.
AnalyzerResults == {<<"en", "ja">>, <<"JA", "ja">>, <<"fr", "en">>, <<"en", "ja", "fr", "de">>}

\* What it can report as unsupported languages.
UnsupportedResults == {<<>>, <<"tlh">>}

\* The results it can return: supported languages only, or an unsupported
\* language next to no or to two supported ones.
AnalyzerAnswers ==
    {[supported |-> s, unsupported |-> <<>>] : s \in AnalyzerResults}
    \cup {[supported |-> s, unsupported |-> u] :
             s \in {<<>>, <<"en", "ja">>}, u \in UnsupportedResults \ {<<>>}}

\* analyze returns a result, returns an empty result, or raises.
AnalyzerOutcomes == {"result", "empty", "raise"}

\* A token issued before the maximum was lowered, or a tampered one.
StaleToken == <<"EN", "ja", "fr", "de">>

\* LanguageSettingsService._limit_language_choices: lower-case, drop empty
\* and repeated codes, keep the first max_group_languages (first component)
RECURSIVE LimitLanguageChoices(_, _, _)
LimitLanguageChoices(langs, seen, limited) ==
    IF langs = <<>> THEN limited
    ELSE LET code == Lower(Head(langs)) IN
         IF code = "" \/ code \in seen THEN LimitLanguageChoices(Tail(langs), seen, limited)
         ELSE LimitLanguageChoices(Tail(langs), seen \cup {code},
                                   IF Len(limited) < MaxGroupLanguages
                                   THEN Append(limited, code) ELSE limited)

\* LanguageSettingsService._limit_language_choices, second component: the
\* distinct codes that arrive once max_group_languages are already kept
RECURSIVE DroppedLanguageChoices(_, _, _)
DroppedLanguageChoices(langs, seen, kept) ==
    IF langs = <<>> THEN <<>>
    ELSE LET code == Lower(Head(langs)) IN
         IF code = "" \/ code \in seen THEN DroppedLanguageChoices(Tail(langs), seen, kept)
         ELSE IF kept < MaxGroupLanguages
              THEN DroppedLanguageChoices(Tail(langs), seen \cup {code}, kept + 1)
              ELSE <<code>> \o DroppedLanguageChoices(Tail(langs), seen \cup {code}, kept)

\* _dedup_languages (postback handler and service): lower-case, drop empty
\* and repeated codes
RECURSIVE DedupLanguages(_, _)
DedupLanguages(langs, seen) ==
    IF langs = <<>> THEN <<>>
    ELSE LET lowered == Lower(Head(langs)) IN
         IF lowered = "" \/ lowered \in seen THEN DedupLanguages(Tail(langs), seen)
         ELSE <<lowered>> \o DedupLanguages(Tail(langs), seen \cup {lowered})

\* NeonMessageRepository._normalize_languages; seen starts as the existing codes
RECURSIVE NormalizeLanguages(_, _)
NormalizeLanguages(langs, seen) ==
    IF langs = <<>> THEN <<>>
    ELSE LET lowered == Lower(Head(langs)) IN
         IF lowered = "" \/ lowered \in seen THEN NormalizeLanguages(Tail(langs), seen)
         ELSE <<lowered>> \o NormalizeLanguages(Tail(langs), seen \cup {lowered})

\* try_complete_group_languages: limited = normalized[: max_group_languages]
LimitedLanguages(langs) ==
    LET normalized == NormalizeLanguages(langs, {})
    IN SubSeq(normalized, 1, IF Len(normalized) < MaxGroupLanguages
                             THEN Len(normalized) ELSE MaxGroupLanguages)

\* Variant: try_complete_group_languages without the duplicate check
AlreadyCompletedIgnored(last_completed_at) == FALSE

\* try_complete_group_languages: "if row and row[0]: return False"
AlreadyCompleted(last_completed_at) == last_completed_at

\* Variant: confirm without the early return on a duplicate
AfterTryCompleteUnconditional(completed) == "enable"

\* confirm: "if not completed: return"; otherwise the side effects follow
AfterTryComplete(completed) == IF completed THEN "enable" ELSE "done"

IdleProposer ==
    [pc |-> "idle", outcome |-> None, supported |-> <<>>, unsupported |-> <<>>,
     reply |-> None, acts |-> {}]

IdleDelivery ==
    [pc |-> "idle", kind |-> None, token |-> -1, tuples |-> <<>>, epoch |-> -1, saw |-> FALSE,
     result |-> None, reply |-> None, wrote |-> FALSE, stale |-> FALSE]

IdleCommand ==
    [pc |-> "idle", op |-> None, add |-> <<>>, remove |-> <<>>, limited |-> <<>>,
     reply |-> None, wrote |-> FALSE]

NoHistory ==
    [epoch |-> 0,
     completions |-> [e \in Epochs |-> 0],
     enables |-> [e \in Epochs |-> 0],
     messages |-> [e \in Epochs |-> 0],
     winner |-> [e \in Epochs |-> NoList],
     cancels |-> [e \in Epochs |-> 0],
     disables |-> [e \in Epochs |-> 0],
     cancelTexts |-> [e \in Epochs |-> 0],
     consumed |-> {},
     commands |-> 0]

\* No postback payload under observation.
IdlePostback ==
    [pc |-> "idle", scheme |-> None, payload |-> <<>>, token |-> <<>>, shrunk |-> FALSE,
     final |-> <<>>, cut |-> FALSE,
     decoded |-> [ok |-> FALSE, val |-> <<>>], eq |-> TRUE, raised |-> None, handled |-> None]

\* No RetryPolicy.run under observation.
IdleRetry ==
    [status |-> "idle", arg |-> 1, retries |-> 1, backoff |-> 0, attempt |-> 0, outs |-> <<>>,
     last_error |-> None, value |-> None, error |-> None, sleeps |-> <<>>]

\* ------------------------------------------------------------------ state
IdleWorker ==
    [pc |-> "idle", paid |-> FALSE, limit |-> 0, plan_key |-> None, period_key |-> NoKey,
     notice_plan |-> None, current_usage |-> -1, decided |-> FALSE, decision |-> NoDecision,
     calls |-> 0, trOut |-> None, trExc |-> None, exc |-> None, flagExc |-> None,
     reply |-> "null", returned |-> FALSE,
     pre |-> -1, delta |-> 0, acts |-> {}, alone |-> TRUE]

NoUpgrade == [free |-> -1, pro |-> -1, key |-> NoKey]

\* A tenant with no usage, no subscription and no invocation in flight.
QuotaInit ==
    /\ usage = [k \in PeriodKeys |-> 0]
    /\ noticePlan = [k \in PeriodKeys |-> None]
    /\ enabled = TRUE
    /\ sub = SubNone
    /\ now = Clock0
    /\ wk = [w \in Workers |-> IdleWorker]
    /\ handled = 0
    /\ noticeCount = [k \in PeriodKeys |-> [p \in Plans |-> 0]]
    /\ markerSets = [k \in PeriodKeys |-> [p \in Plans |-> 0]]
    /\ atUpgrade = NoUpgrade

\* TranslationService.translate has not been called
IdleGateway == [pc |-> "idle", candidates |-> <<>>, detected |-> "", targets |-> <<>>,
                calls |-> 0, result |-> "none"]

\* LeaveHandler.handle has not been called
IdleLeave == [pc |-> "idle", has_group |-> FALSE, outs |-> <<>>, attempt |-> 0,
              results |-> <<>>, reset |-> None, result |-> None]

\* No invocation outside the flow under study is running.
SideIdle == tg = IdleGateway /\ lv = IdleLeave

\* The message flow starts from a tenant whose languages are enrolled.
Init ==
    /\ QuotaInit
    /\ SideIdle
    /\ gate = [row |-> TRUE, completed |-> TRUE, lock |-> 0]
    /\ languages = <<"en", "ja">>
    /\ prompts = <<>>
    /\ proposer = IdleProposer
    /\ cf = [d \in Deliveries |-> IdleDelivery]
    /\ lc = IdleCommand
    /\ hist = NoHistory
    /\ rp = IdleRetry
    /\ pb = IdlePostback

\* The enrollment flow starts from a tenant that has just been invited:
\* no marker row, no languages, no settings row (enabled defaults to true).
InitEnroll ==
    /\ QuotaInit
    /\ SideIdle
    /\ gate = [row |-> FALSE, completed |-> FALSE, lock |-> 0]
    /\ languages = <<>>
    /\ prompts = <<>>
    /\ proposer = IdleProposer
    /\ cf = [d \in Deliveries |-> IdleDelivery]
    /\ lc = IdleCommand
    /\ hist = NoHistory
    /\ rp = IdleRetry
    /\ pb = IdlePostback

\* ---------------------------------------------------------------- helpers
OthersIdle(w) == \A v \in Workers \ {w} : wk[v].pc = "idle"

AllIdle == \A v \in Workers : wk[v].pc = "idle"

\* Worker w moves to the record rec; alone records whether any other
\* invocation of the tenant overlapped with this one.
WkStep(w, rec) ==
    wk' = [v \in Workers |->
             IF v = w THEN [rec EXCEPT !.alone = wk[w].alone /\ OthersIdle(w)]
             ELSE IF wk[v].pc # "idle" THEN [wk[v] EXCEPT !.alone = FALSE]
             ELSE wk[v]]

Bump(counter, period_key, plan) == [counter EXCEPT ![period_key][plan] = @ + 1]

\* MessageHandler.handle: the except clauses.  Only the rate-limit error
\* produces a reply (the throttling notice); anything else is logged.
HandleException(rec, error) ==
    [rec EXCEPT !.pc = "done", !.exc = error,
                !.acts = IF error = "GeminiRateLimitError" THEN @ \cup {"rate_limit_notice"} ELSE @]

\* ------------------------------------------------ MessageHandler.handle
\* How the read of the translation-enabled flag can fail while the
\* group_settings table exists: not at all, or with a datastore error
FlagReadFailures == {None, "DatabaseError"}

\* NeonMessageRepository.is_translation_enabled: the stored flag; TRUE when
\* the table is missing; any other failure is logged and raised
IsTranslationEnabled(row, failure) ==
    IF failure = None THEN [raised |-> None, value |-> row]
    ELSE IF failure = "UndefinedTable" THEN [raised |-> None, value |-> TRUE]
    ELSE [raised |-> failure, value |-> FALSE]

\* handle / _process_group_message: a non-command group message; the
\* translation-enabled flag is read first.
Receive(w) ==
    /\ wk[w].pc = "idle"
    /\ handled < MaxMessages
    /\ handled' = handled + 1
    /\ \E failure \in FlagReadFailures :
         LET flag == IsTranslationEnabled(enabled, failure)
         IN IF flag.raised # None
            THEN WkStep(w, HandleException([wk[w] EXCEPT !.flagExc = flag.raised], flag.raised))
            ELSE WkStep(w, [wk[w] EXCEPT !.pc = IF flag.value THEN "evaluate" ELSE "pause"])
    /\ UNCHANGED <<usage, noticePlan, enabled, sub, now, noticeCount, markerSets, atUpgrade, enrollVars, rp, pb, sideVars>>

\* _send_pause_notice: translation is disabled.  The over-quota branch calls
\* _send_over_quota_message, which MessageHandler does not define.
PauseNotice(w) ==
    /\ wk[w].pc = "pause"
    /\ LET paid == IsPaid(sub.status)
           limit == IF paid THEN ProQuota ELSE FreeQuota
           key == ComputePeriodKey(paid, sub.period_start, sub.period_end, now)
       IN IF usage[key] >= limit
          THEN WkStep(w, HandleException(wk[w], "AttributeError"))
          ELSE WkStep(w, [wk[w] EXCEPT !.pc = "done", !.acts = @ \cup {"pause_notice"}])
    /\ UNCHANGED <<usage, noticePlan, enabled, sub, now, handled, noticeCount, markerSets, atUpgrade, enrollVars, rp, pb, sideVars>>

\* _handle_translation_flow: get_subscription_period, paid, limit, plan_key;
\* then QuotaService.evaluate: compute_period_key and get_limit_notice_plan.
\* (Nothing that writes the marker reads the subscription row, so the two
\* reads are taken in one step.)
EvalReadPlan(w) ==
    /\ wk[w].pc = "evaluate"
    /\ LET paid == IsPaid(sub.status)
           key == ComputePeriodKey(paid, sub.period_start, sub.period_end, now)
       IN WkStep(w, [wk[w] EXCEPT !.pc = "eval_usage",
                                  !.paid = paid,
                                  !.limit = IF paid THEN ProQuota ELSE FreeQuota,
                                  !.plan_key = IF paid THEN "pro" ELSE "free",
                                  !.period_key = key,
                                  !.notice_plan = noticePlan[key]])
    /\ UNCHANGED <<usage, noticePlan, enabled, sub, now, handled, noticeCount, markerSets, atUpgrade, enrollVars, rp, pb, sideVars>>

\* QuotaService.evaluate: get_usage and the two early returns
EvalReadUsage(w) ==
    /\ wk[w].pc = "eval_usage"
    /\ LET r == wk[w]
           early == EvaluateEarly(r.paid, r.limit, r.plan_key, r.period_key, r.notice_plan,
                                  usage[r.period_key])
       IN IF early # NoDecision
          THEN WkStep(w, [r EXCEPT !.pc = "refused", !.current_usage = usage[r.period_key],
                                   !.decided = TRUE, !.decision = early,
                                   !.returned = TRUE, !.reply = "null"])
          ELSE WkStep(w, [r EXCEPT !.pc = "eval_inc", !.current_usage = usage[r.period_key]])
    /\ UNCHANGED <<usage, noticePlan, enabled, sub, now, handled, noticeCount, markerSets, atUpgrade, enrollVars, rp, pb, sideVars>>

\* Variant: run goes on whatever the decision is
RunReturnsEarlyNever(decision) == FALSE

\* TranslationFlowService.run: "if not decision.allowed: return"
RunReturnsEarly(decision) == ~decision.allowed

\* QuotaService.evaluate: increment_usage (atomic) and the decision
EvalIncrement(w) ==
    /\ wk[w].pc = "eval_inc"
    /\ LET r == wk[w]
           after == IncrementUsage(usage, r.period_key, 1)
           d == EvaluateAfterIncrement(r.paid, r.limit, r.plan_key, r.period_key,
                                       r.notice_plan, after[r.period_key])
       IN /\ usage' = after
          /\ WkStep(w, [r EXCEPT !.pc = IF RunReturnsEarly(d) THEN "refused" ELSE "translate",
                                 !.decided = TRUE, !.decision = d,
                                 !.returned = RunReturnsEarly(d),
                                 !.pre = usage[r.period_key],
                                 !.delta = @ + (after[r.period_key] - usage[r.period_key]),
                                 !.acts = @ \cup {"increment"}])
    /\ UNCHANGED <<noticePlan, enabled, sub, now, handled, noticeCount, markerSets, atUpgrade, enrollVars, rp, pb, sideVars>>

\* _handle_translation_flow after run returned an allowed decision: the
\* reply is sent unless it is empty; a threshold message first builds the
\* notice text (checkout URL, interface translation: both can raise).
AfterRun(rec, reply) ==
    IF reply \in {"null", ""}
    THEN {[rec EXCEPT !.pc = "done", !.reply = reply, !.returned = TRUE]}
    ELSE IF rec.decision.should_notify
    THEN {[rec EXCEPT !.pc = "threshold_mark", !.reply = reply, !.returned = TRUE],
          HandleException([rec EXCEPT !.reply = reply, !.returned = TRUE], "NoticeError")}
    ELSE {[rec EXCEPT !.pc = "done", !.reply = reply, !.returned = TRUE, !.acts = @ \cup {"reply"}]}

\* TranslationFlowService.run: fetch_recent_messages (outside the try
\* block), then _invoke_translation_with_retry through the RetryPolicy.
Translate(w) ==
    /\ wk[w].pc = "translate"
    /\ LET r == wk[w] IN
       \/ WkStep(w, HandleException([r EXCEPT !.acts = @ \cup {"fetch"}], "DatabaseError"))
       \/ \E outs \in AttemptSeqs :
            LET res == RetryPolicyRun(outs, 0)
                t == [r EXCEPT !.calls = res.calls, !.acts = @ \cup {"fetch", "translate"}]
            IN IF res.raised # None
               THEN WkStep(w, [t EXCEPT !.pc = "rollback", !.trExc = res.raised])
               ELSE IF res.value = <<>>
               THEN WkStep(w, [t EXCEPT !.pc = "rollback", !.trOut = "empty"])
               ELSE \E nxt \in AfterRun([t EXCEPT !.trOut = "results"],
                                        BuildTranslationReply(res.value)) : WkStep(w, nxt)
    /\ UNCHANGED <<usage, noticePlan, enabled, sub, now, handled, noticeCount, markerSets, atUpgrade, enrollVars, rp, pb, sideVars>>

\* TranslationFlowService.run: the except blocks and the zero-result branch
Rollback(w) ==
    /\ wk[w].pc = "rollback"
    /\ LET r == wk[w]
           rb == RollbackUsage(usage, r.period_key, 1)
           t == [r EXCEPT !.delta = @ - (usage[r.period_key] - rb.usage[r.period_key]),
                          !.acts = IF rb.usage # usage THEN @ \cup {"rollback"} ELSE @]
       IN /\ usage' = rb.usage
          /\ IF rb.raised # None
             THEN WkStep(w, HandleException(t, rb.raised))
             ELSE IF r.trExc # None
             THEN WkStep(w, HandleException(t, r.trExc))
             ELSE \E nxt \in AfterRun(t, "null") : WkStep(w, nxt)
    /\ UNCHANGED <<noticePlan, enabled, sub, now, handled, noticeCount, markerSets, atUpgrade, enrollVars, rp, pb, sideVars>>

\* _handle_translation_flow: the decision is not allowed
Refused(w) ==
    /\ wk[w].pc = "refused"
    /\ LET r == wk[w] IN
       /\ enabled' = IF r.decision.stop_translation THEN FALSE ELSE enabled
       /\ WkStep(w, [r EXCEPT !.pc = IF r.decision.should_notify THEN "notice_check" ELSE "done",
                              !.acts = IF r.decision.stop_translation THEN @ \cup {"disable"} ELSE @])
    /\ UNCHANGED <<usage, noticePlan, sub, now, handled, noticeCount, markerSets, atUpgrade, enrollVars, rp, pb, sideVars>>

\* _maybe_send_limit_notice: re-read the marker, then
\* _send_limit_reached_notice (building the text can raise)
NoticeCheck(w) ==
    /\ wk[w].pc = "notice_check"
    /\ LET r == wk[w] IN
       IF noticePlan[r.decision.period_key] = r.decision.plan_key
       THEN /\ WkStep(w, [r EXCEPT !.pc = "done"])
            /\ noticeCount' = noticeCount
       ELSE \E ok \in BOOLEAN :
              IF ok
              THEN /\ noticeCount' = Bump(noticeCount, r.decision.period_key, r.decision.plan_key)
                   /\ WkStep(w, [r EXCEPT !.pc = "notice_mark", !.acts = @ \cup {"notice"}])
              ELSE /\ noticeCount' = noticeCount
                   /\ WkStep(w, HandleException(r, "NoticeError"))
    /\ UNCHANGED <<usage, noticePlan, enabled, sub, now, handled, markerSets, atUpgrade, enrollVars, rp, pb, sideVars>>

\* _maybe_send_limit_notice: set_limit_notice_plan
NoticeMark(w) ==
    /\ wk[w].pc = "notice_mark"
    /\ LET r == wk[w] IN
       /\ noticePlan' = [noticePlan EXCEPT ![r.decision.period_key] = r.decision.plan_key]
       /\ markerSets' = Bump(markerSets, r.decision.period_key, r.decision.plan_key)
       /\ WkStep(w, [r EXCEPT !.pc = "done", !.acts = @ \cup {"set_marker"}])
    /\ UNCHANGED <<usage, enabled, sub, now, handled, noticeCount, atUpgrade, enrollVars, rp, pb, sideVars>>

\* threshold message: set_limit_notice_plan, then the translation and the
\* notice in one reply
ThresholdMark(w) ==
    /\ wk[w].pc = "threshold_mark"
    /\ LET r == wk[w] IN
       /\ noticePlan' = [noticePlan EXCEPT ![r.decision.period_key] = r.plan_key]
       /\ markerSets' = Bump(markerSets, r.decision.period_key, r.plan_key)
       /\ noticeCount' = Bump(noticeCount, r.decision.period_key, r.plan_key)
       /\ WkStep(w, [r EXCEPT !.pc = "done", !.acts = @ \cup {"set_marker", "reply", "notice"}])
    /\ UNCHANGED <<usage, enabled, sub, now, handled, atUpgrade, enrollVars, rp, pb, sideVars>>

\* handle returns; the invocation ends
Finish(w) ==
    /\ wk[w].pc = "done"
    /\ WkStep(w, IdleWorker)
    /\ UNCHANGED <<usage, noticePlan, enabled, sub, now, handled, noticeCount, markerSets, atUpgrade, enrollVars, rp, pb, sideVars>>

\* ------------------------------------------------- other events of the tenant
\* stripe_webhook_handler._upsert_subscription: the row and the enabled flag
StripeUpdate(s) ==
    /\ s \in SubChoices \ {SubNone, sub}
    /\ sub' = s
    /\ enabled' = IsPaid(s.status)
    /\ atUpgrade' = IF IsPaid(s.status) /\ ~IsPaid(sub.status) /\ AllIdle
                    THEN LET key == ComputePeriodKey(TRUE, s.period_start, s.period_end, now)
                         IN [free |-> noticeCount[MonthFirst(DateOf(now))]["free"],
                             pro |-> noticeCount[key]["pro"], key |-> key]
                    ELSE NoUpgrade
    /\ UNCHANGED <<usage, noticePlan, now, wk, handled, noticeCount, markerSets, enrollVars, rp, pb, sideVars>>

\* _handle_command, action "resume": set_translation_enabled(True)
ResumeCommand ==
    /\ ~enabled
    /\ enabled' = TRUE
    /\ UNCHANGED <<usage, noticePlan, sub, now, wk, handled, noticeCount, markerSets, atUpgrade, enrollVars, rp, pb, sideVars>>

Next ==
    \/ \E w \in Workers :
         \/ Receive(w) \/ PauseNotice(w)
         \/ EvalReadPlan(w) \/ EvalReadUsage(w) \/ EvalIncrement(w)
         \/ Translate(w) \/ Rollback(w)
         \/ Refused(w) \/ NoticeCheck(w) \/ NoticeMark(w)
         \/ ThresholdMark(w)
         \/ Finish(w)
    \/ \E s \in SubChoices : StripeUpdate(s)
    \/ ResumeCommand

Spec == Init /\ [][Next]_vars

TypeOK ==
    /\ \A k \in PeriodKeys : usage[k] \in 0..MaxMessages /\ noticePlan[k] \in Plans \cup {None}
    /\ enabled \in BOOLEAN
    /\ sub \in SubChoices
    /\ handled \in 0..MaxMessages

\* ------------------------------------------------ enrollment: propose
\* Variant: propose without "if not result"
AnalysisFailedOnRaiseOnly(outcome) == outcome = "raise"

\* propose: "except Exception" and "if not result" both end in the fallback
AnalysisFailed(outcome) == outcome # "result"

\* Variant: propose without the check of the detected total
DetectedOverLimitNever(supported, unsupported) == FALSE

\* propose: detected_total > self._max_group_languages
DetectedOverLimit(supported, unsupported) == Len(supported) + Len(unsupported) > MaxGroupLanguages

\* _handle_translation_flow: fetch_group_languages finds no language, so
\* _attempt_language_enrollment calls propose; the analyzer answers with a
\* result, with an empty result, or raises.
ProposeStart(outcome, supported, unsupported) ==
    /\ proposer.pc = "idle"
    /\ Len(prompts) < MaxPrompts
    /\ languages = <<>>
    /\ outcome \in AnalyzerOutcomes
    /\ outcome = "result" =>
         [supported |-> supported, unsupported |-> unsupported] \in AnalyzerAnswers
    /\ outcome # "result" => (supported = <<>> /\ unsupported = <<>>)
    /\ proposer' = [IdleProposer EXCEPT !.pc = "analyzed", !.outcome = outcome,
                                        !.supported = supported, !.unsupported = unsupported]
    /\ UNCHANGED <<enabled, gate, languages, prompts, cf, hist, lc, quotaVars, rp, pb, sideVars>>

\* propose: the analyzer raised or returned nothing: the fixed fallback text
ProposeFallback ==
    /\ proposer.pc = "analyzed"
    /\ AnalysisFailed(proposer.outcome)
    /\ proposer' = [proposer EXCEPT !.pc = "done", !.reply = "fallback"]
    /\ UNCHANGED <<enabled, gate, languages, prompts, cf, hist, lc, quotaVars, rp, pb, sideVars>>

\* propose: more languages detected than the maximum: the limit message
\* only, translation disabled, no prompt
ProposeOverLimit ==
    /\ proposer.pc = "analyzed"
    /\ ~AnalysisFailed(proposer.outcome)
    /\ DetectedOverLimit(proposer.supported, proposer.unsupported)
    /\ enabled' = FALSE
    /\ proposer' = [proposer EXCEPT !.pc = "done", !.reply = "limit_message",
                                    !.acts = @ \cup {"disable"}]
    /\ UNCHANGED <<gate, languages, prompts, cf, hist, lc, quotaVars, rp, pb, sideVars>>

\* propose: no supported language is left: only the unsupported-languages
\* text is replied
ProposeUnsupportedOnly ==
    /\ proposer.pc = "analyzed"
    /\ ~AnalysisFailed(proposer.outcome)
    /\ ~DetectedOverLimit(proposer.supported, proposer.unsupported)
    /\ LimitLanguageChoices(proposer.supported, {}, <<>>) = <<>>
    /\ proposer' = [proposer EXCEPT !.pc = "done", !.reply = "unsupported_message"]
    /\ UNCHANGED <<enabled, gate, languages, prompts, cf, hist, lc, quotaVars, rp, pb, sideVars>>

\* Variant: record_language_prompt without "last_completed_at = NULL"
RecordLanguagePromptKeepsCompleted(row) == [row EXCEPT !.row = TRUE]

\* record_language_prompt: INSERT ... ON CONFLICT DO UPDATE SET
\* last_prompted_at = NOW(), last_completed_at = NULL
RecordLanguagePrompt(row) == [row EXCEPT !.row = TRUE, !.completed = FALSE]

\* propose: record_language_prompt re-opens the gate (the upsert waits for
\* the row lock)
ProposeRecord ==
    /\ proposer.pc = "analyzed"
    /\ ~AnalysisFailed(proposer.outcome)
    /\ ~DetectedOverLimit(proposer.supported, proposer.unsupported)
    /\ LimitLanguageChoices(proposer.supported, {}, <<>>) # <<>>
    /\ gate.lock = 0
    /\ gate' = RecordLanguagePrompt(gate)
    /\ hist' = [hist EXCEPT !.epoch = @ + 1]
    /\ proposer' = [proposer EXCEPT !.pc = "recorded", !.acts = @ \cup {"record_prompt"}]
    /\ UNCHANGED <<enabled, languages, prompts, cf, lc, quotaVars, rp, pb, sideVars>>

\* propose: set_translation_enabled(False); the prompt with its confirm
\* and cancel tokens is replied
ProposeReply ==
    /\ proposer.pc = "recorded"
    /\ enabled' = FALSE
    /\ prompts' = Append(prompts, LimitLanguageChoices(proposer.supported, {}, <<>>))
    /\ proposer' = [proposer EXCEPT !.pc = "done", !.reply = "prompt",
                                    !.acts = @ \cup {"disable", "token"}]
    /\ UNCHANGED <<gate, languages, cf, hist, lc, quotaVars, rp, pb, sideVars>>

\* _attempt_language_enrollment: the reply is sent; the invocation ends
ProposeFinish ==
    /\ proposer.pc = "done"
    /\ proposer' = IdleProposer
    /\ UNCHANGED <<enabled, gate, languages, prompts, cf, hist, lc, quotaVars, rp, pb, sideVars>>

\* ------------------------------------------------ enrollment: postbacks
\* Variant: confirm without the re-validation of the language count
OverLanguageLimitNever(tuples) == FALSE

\* confirm: "if len(tuples) > self._max_group_languages" (the warning branch)
OverLanguageLimit(tuples) == Len(tuples) > MaxGroupLanguages

\* Deliveries are numbered in their order of arrival.
Arrived(d) == d \in Deliveries => cf[d].pc # "idle"

\* PostbackHandler._handle_language_confirm / LanguageSettingsService.confirm:
\* one delivery of a confirm token (token 0 is the stale one); the
\* language count is re-validated before the completion write.
ConfirmReceive(d, token) ==
    /\ cf[d].pc = "idle"
    /\ Arrived(d - 1)
    /\ token \in 0..Len(prompts)
    /\ LET tuples == DedupLanguages(IF token = 0 THEN StaleToken ELSE prompts[token], {})
           rec == [cf[d] EXCEPT !.kind = "confirm", !.token = token, !.tuples = tuples,
                                !.stale = (<<token, "confirm">> \in hist.consumed)]
       IN cf' = [cf EXCEPT ![d] =
                   IF OverLanguageLimit(tuples)
                   THEN [rec EXCEPT !.pc = "done", !.reply = "limit_warning"]
                   ELSE [rec EXCEPT !.pc = "tx_insert"]]
    /\ UNCHANGED <<enabled, gate, languages, prompts, proposer, hist, lc, quotaVars, rp, pb, sideVars>>

\* PostbackHandler._handle_language_confirm, action "cancel" /
\* LanguageSettingsService.cancel: one delivery of a cancel token
CancelReceive(d, token) ==
    /\ cf[d].pc = "idle"
    /\ Arrived(d - 1)
    /\ token \in 1..Len(prompts)
    /\ cf' = [cf EXCEPT ![d] = [@ EXCEPT !.pc = "tx_insert", !.kind = "cancel", !.token = token,
                                         !.stale = (<<token, "cancel">> \in hist.consumed)]]
    /\ UNCHANGED <<enabled, gate, languages, prompts, proposer, hist, lc, quotaVars, rp, pb, sideVars>>

\* try_complete_group_languages / try_cancel_language_prompt:
\* INSERT ... ON CONFLICT DO NOTHING.  A row inserted here stays locked by
\* the transaction until it commits.
TxInsertMarker(d) ==
    /\ cf[d].pc = "tx_insert"
    /\ gate' = IF gate.row THEN gate ELSE [gate EXCEPT !.row = TRUE, !.lock = d]
    /\ cf' = [cf EXCEPT ![d].pc = "tx_select"]
    /\ UNCHANGED <<enabled, languages, prompts, proposer, hist, lc, quotaVars, rp, pb, sideVars>>

\* try_complete_group_languages / try_cancel_language_prompt:
\* SELECT last_completed_at ... FOR UPDATE waits for the row lock and then
\* reads the committed row.
TxSelectForUpdate(d) ==
    /\ cf[d].pc = "tx_select"
    /\ gate.lock \in {0, d}
    /\ gate' = [gate EXCEPT !.lock = d]
    /\ cf' = [cf EXCEPT ![d].pc = "tx_locked", ![d].saw = gate.completed,
                        ![d].epoch = hist.epoch]
    /\ UNCHANGED <<enabled, languages, prompts, proposer, hist, lc, quotaVars, rp, pb, sideVars>>

\* try_complete_group_languages: either return False, or replace the
\* languages and stamp last_completed_at; the transaction commits and the
\* lock is released.  The handler then branches on the result.
TxCommit(d) ==
    /\ cf[d].pc = "tx_locked" /\ cf[d].kind = "confirm"
    /\ LET completed == ~AlreadyCompleted(cf[d].saw)
           e == cf[d].epoch
       IN /\ languages' = IF completed THEN LimitedLanguages(cf[d].tuples) ELSE languages
          /\ gate' = [gate EXCEPT !.completed = IF completed THEN TRUE ELSE @, !.lock = 0]
          /\ hist' = IF completed
                     THEN [hist EXCEPT !.completions[e] = @ + 1, !.winner[e] = cf[d].tuples,
                                       !.consumed = @ \cup {<<cf[d].token, "confirm">>}]
                     ELSE hist
          /\ cf' = [cf EXCEPT ![d].pc = AfterTryComplete(completed),
                              ![d].result = IF completed THEN "completed" ELSE "not_completed",
                              ![d].wrote = (languages' # languages \/ gate'.completed # gate.completed)]
    /\ UNCHANGED <<enabled, prompts, proposer, lc, quotaVars, rp, pb, sideVars>>

\* Variant: cancel without the early return on a closed gate
AfterTryCancelUnconditional(cancelled) == "disable"

\* cancel: "if not cancelled: return"; otherwise the side effects follow
AfterTryCancel(cancelled) == IF cancelled THEN "disable" ELSE "done"

\* try_cancel_language_prompt: either return False, or stamp
\* last_completed_at; the transaction commits and the lock is released.
TxCancelCommit(d) ==
    /\ cf[d].pc = "tx_locked" /\ cf[d].kind = "cancel"
    /\ LET cancelled == ~AlreadyCompleted(cf[d].saw)
           e == cf[d].epoch
       IN /\ gate' = [gate EXCEPT !.completed = IF cancelled THEN TRUE ELSE @, !.lock = 0]
          /\ hist' = IF cancelled
                     THEN [hist EXCEPT !.cancels[e] = @ + 1,
                                       !.consumed = @ \cup {<<cf[d].token, "cancel">>}]
                     ELSE hist
          /\ cf' = [cf EXCEPT ![d].pc = AfterTryCancel(cancelled),
                              ![d].result = IF cancelled THEN "cancelled" ELSE "not_cancelled",
                              ![d].wrote = (gate'.completed # gate.completed)]
    /\ UNCHANGED <<enabled, languages, prompts, proposer, lc, quotaVars, rp, pb, sideVars>>

\* confirm: set_translation_enabled(True)
EnableTranslation(d) ==
    /\ cf[d].pc = "enable"
    /\ enabled' = TRUE
    /\ hist' = [hist EXCEPT !.enables[cf[d].epoch] = @ + 1]
    /\ cf' = [cf EXCEPT ![d].pc = "reply", ![d].wrote = TRUE]
    /\ UNCHANGED <<gate, languages, prompts, proposer, lc, quotaVars, rp, pb, sideVars>>

\* confirm: the completion message is built and replied
ReplyCompletion(d) ==
    /\ cf[d].pc = "reply"
    /\ hist' = [hist EXCEPT !.messages[cf[d].epoch] = @ + 1]
    /\ cf' = [cf EXCEPT ![d].pc = "done", ![d].reply = "completion"]
    /\ UNCHANGED <<enabled, gate, languages, prompts, proposer, lc, quotaVars, rp, pb, sideVars>>

\* cancel: set_translation_enabled(False)
DisableTranslation(d) ==
    /\ cf[d].pc = "disable"
    /\ enabled' = FALSE
    /\ hist' = [hist EXCEPT !.disables[cf[d].epoch] = @ + 1]
    /\ cf' = [cf EXCEPT ![d].pc = "reply_cancel", ![d].wrote = TRUE]
    /\ UNCHANGED <<gate, languages, prompts, proposer, lc, quotaVars, rp, pb, sideVars>>

\* cancel: the cancel text is replied
ReplyCancel(d) ==
    /\ cf[d].pc = "reply_cancel"
    /\ hist' = [hist EXCEPT !.cancelTexts[cf[d].epoch] = @ + 1]
    /\ cf' = [cf EXCEPT ![d].pc = "done", ![d].reply = "cancel"]
    /\ UNCHANGED <<enabled, gate, languages, prompts, proposer, lc, quotaVars, rp, pb, sideVars>>

\* ------------------------------------------------ enrollment: reset
\* _handle_language_settings (reset_all) and JoinHandler.handle (re-invite):
\* reset_group_language_settings deletes the languages and clears
\* last_completed_at (the update waits for the row lock).
ResetSettings(op) ==
    /\ lc.pc = "idle"
    /\ op \in {"reset_all", "rejoin"}
    /\ hist.commands < MaxCommands
    /\ gate.lock = 0
    /\ languages' = <<>>
    /\ gate' = [gate EXCEPT !.completed = FALSE]
    /\ hist' = [hist EXCEPT !.epoch = @ + 1, !.commands = @ + 1]
    /\ lc' = [IdleCommand EXCEPT !.pc = "reset_done", !.op = op]
    /\ UNCHANGED <<enabled, prompts, proposer, cf, quotaVars, rp, pb, sideVars>>

\* reset_all / re-invite: set_translation_enabled(False), then the guidance
ResetDisable ==
    /\ lc.pc = "reset_done"
    /\ enabled' = FALSE
    /\ lc' = IdleCommand
    /\ UNCHANGED <<gate, languages, prompts, proposer, cf, hist, quotaVars, rp, pb, sideVars>>

NextEnroll ==
    \/ \E outcome \in AnalyzerOutcomes, supported \in AnalyzerResults \cup {<<>>},
          unsupported \in UnsupportedResults : ProposeStart(outcome, supported, unsupported)
    \/ ProposeFallback
    \/ ProposeOverLimit
    \/ ProposeUnsupportedOnly
    \/ ProposeRecord
    \/ ProposeReply
    \/ ProposeFinish
    \/ \E d \in Deliveries :
         \/ \E token \in 0..MaxPrompts : ConfirmReceive(d, token)
         \/ \E token \in 1..MaxPrompts : CancelReceive(d, token)
         \/ TxInsertMarker(d) \/ TxSelectForUpdate(d)
         \/ TxCommit(d) \/ TxCancelCommit(d)
         \/ EnableTranslation(d) \/ ReplyCompletion(d)
         \/ DisableTranslation(d) \/ ReplyCancel(d)

SpecEnroll == InitEnroll /\ [][NextEnroll]_vars

\* ------------------------------------------------ enrollment: worker crash
\* _handle_language_confirm: the worker dies between the return of
\* try_complete_group_languages (its transaction has committed) and
\* set_translation_enabled(True); nothing of the invocation survives but
\* the committed rows, and the platform delivers the event again.
WorkerCrash(d) ==
    /\ cf[d].pc = "enable"
    /\ cf' = [cf EXCEPT ![d].pc = "crashed"]
    /\ UNCHANGED <<enabled, gate, languages, prompts, proposer, hist, lc, quotaVars, rp, pb, sideVars>>

NextCrash ==
    \/ NextEnroll
    \/ \E d \in Deliveries : WorkerCrash(d)

\* Every handler that has started runs to its end, and an event that was
\* not acknowledged is delivered again.
SpecCrash == InitEnroll /\ [][NextCrash]_vars /\ WF_vars(NextEnroll)

\* ------------------------------------------------ language commands
\* What the command router can extract from an add / remove instruction.
AddChoices == {<<"fr">>, <<"FR", "de">>}
RemoveChoices == {<<"ja">>, <<"EN">>}

\* The codes of langs that are not in the set drop
RECURSIVE Without(_, _)
Without(langs, drop) ==
    IF langs = <<>> THEN <<>>
    ELSE IF Lower(Head(langs)) \in drop THEN Without(Tail(langs), drop)
         ELSE <<Head(langs)>> \o Without(Tail(langs), drop)

CodeSet(langs) == {Lower(langs[i]) : i \in 1..Len(langs)}

\* MessageHandler._would_exceed_language_limit
WouldExceedLanguageLimit(current_langs, add_langs, remove_codes) ==
    LET remaining == Without(current_langs, CodeSet(remove_codes))
        to_add == NormalizeLanguages(add_langs, CodeSet(remaining))
    IN Len(remaining) + Len(to_add) > MaxGroupLanguages

\* _handle_language_settings: normalized_add for the operation
NormalizedAdd(op, current_langs, add_langs, remove_codes) ==
    IF op = "add_and_remove"
    THEN NormalizeLanguages(add_langs, CodeSet(Without(current_langs, CodeSet(remove_codes))))
    ELSE IF op = "add" THEN NormalizeLanguages(add_langs, CodeSet(current_langs))
    ELSE <<>>

\* _handle_language_settings for add, remove and add_and_remove: the current
\* languages are fetched; an add that would exceed the maximum is answered
\* with the limit message and nothing else happens.
CommandStart(op, add_langs, remove_codes) ==
    /\ lc.pc = "idle"
    /\ hist.commands < MaxCommands
    /\ op \in {"add", "remove", "add_and_remove"}
    /\ (op = "add") => (remove_codes = <<>> /\ add_langs # <<>>)
    /\ (op = "remove") => (add_langs = <<>> /\ remove_codes # <<>>)
    /\ (op = "add_and_remove") => (add_langs # <<>> /\ remove_codes # <<>>)
    /\ LET current_langs == DedupLanguages(languages, {})
           normalized_add == NormalizedAdd(op, current_langs, add_langs, remove_codes)
           rec == [IdleCommand EXCEPT !.op = op, !.add = normalized_add, !.remove = remove_codes]
       IN lc' = IF op # "remove" /\ WouldExceedLanguageLimit(current_langs, add_langs, remove_codes)
                THEN [rec EXCEPT !.pc = "cmd_done", !.reply = "limit_message"]
                ELSE IF op # "add" THEN [rec EXCEPT !.pc = "remove"]
                ELSE IF normalized_add # <<>> THEN [rec EXCEPT !.pc = "add_fetch"]
                ELSE [rec EXCEPT !.pc = "enable"]
    /\ hist' = [hist EXCEPT !.commands = @ + 1]
    /\ UNCHANGED <<enabled, gate, languages, prompts, proposer, cf, quotaVars, rp, pb, sideVars>>

\* remove_group_languages: DELETE ... WHERE lang_code = ANY(codes)
CommandRemove ==
    /\ lc.pc = "remove"
    /\ languages' = Without(languages, CodeSet(lc.remove))
    /\ lc' = [lc EXCEPT !.pc = IF lc.op = "add_and_remove" /\ lc.add # <<>>
                                THEN "add_fetch" ELSE "enable",
                        !.wrote = @ \/ languages' # languages]
    /\ UNCHANGED <<enabled, gate, prompts, proposer, cf, hist, quotaVars, rp, pb, sideVars>>

\* add_group_languages: the existing languages are fetched and the new ones
\* are cut to the remaining room
CommandAddFetch ==
    /\ lc.pc = "add_fetch"
    /\ LET existing == languages
           remaining == IF MaxGroupLanguages > Len(existing)
                        THEN MaxGroupLanguages - Len(existing) ELSE 0
           normalized == NormalizeLanguages(lc.add, CodeSet(existing))
           limited == SubSeq(normalized, 1, IF Len(normalized) < remaining
                                            THEN Len(normalized) ELSE remaining)
       IN lc' = [lc EXCEPT !.pc = IF limited = <<>> THEN "enable" ELSE "add_insert",
                           !.limited = limited]
    /\ UNCHANGED <<enabled, gate, languages, prompts, proposer, cf, hist, quotaVars, rp, pb, sideVars>>

\* add_group_languages: INSERT ... ON CONFLICT (group_id, lang_code) DO
\* UPDATE, in a statement of its own
CommandAddInsert ==
    /\ lc.pc = "add_insert"
    /\ languages' = languages \o Without(lc.limited, CodeSet(languages))
    /\ lc' = [lc EXCEPT !.pc = "enable", !.wrote = TRUE]
    /\ UNCHANGED <<enabled, gate, prompts, proposer, cf, hist, quotaVars, rp, pb, sideVars>>

\* _handle_language_settings: set_translation_enabled(True), then the ack
CommandEnable ==
    /\ lc.pc = "enable"
    /\ enabled' = TRUE
    /\ lc' = [lc EXCEPT !.pc = "cmd_done", !.reply = "ack", !.wrote = TRUE]
    /\ UNCHANGED <<gate, languages, prompts, proposer, cf, hist, quotaVars, rp, pb, sideVars>>

\* the reply is sent; the invocation ends
CommandFinish ==
    /\ lc.pc = "cmd_done"
    /\ lc' = IdleCommand
    /\ UNCHANGED <<enabled, gate, languages, prompts, proposer, cf, hist, quotaVars, rp, pb, sideVars>>

\* The enrollment flow together with the language commands, the reset
\* command and the re-invite.
NextLang ==
    \/ NextEnroll
    \/ \E op \in {"reset_all", "rejoin"} : ResetSettings(op)
    \/ ResetDisable
    \/ \E op \in {"add", "remove", "add_and_remove"},
          add_langs \in AddChoices \cup {<<>>}, remove_codes \in RemoveChoices \cup {<<>>} :
            CommandStart(op, add_langs, remove_codes)
    \/ CommandRemove
    \/ CommandAddFetch
    \/ CommandAddInsert
    \/ CommandEnable
    \/ CommandFinish

SpecLang == InitEnroll /\ [][NextLang]_vars

\* =========================================================== retry policy
\* The constructor arguments of the observed policies.
RetryArgs == 0..MaxRetries
BackoffArgs == {0, 1}

\* What the retried operation can return.
RetryValues == {"v1", "v2"}

\* Variant: RetryPolicy.__init__ without max(1, retries)
ClampRetriesIdentity(retries) == retries

\* RetryPolicy.__init__: self._retries = max(1, retries)
ClampRetries(retries) == IF retries >= 1 THEN retries ELSE 1

\* Variant: the first error is kept
RecordErrorKeepFirst(last_error, exc) == IF last_error = None THEN exc ELSE last_error

\* RetryPolicy.run: "last_error = exc"
RecordError(last_error, exc) == exc

\* RetryPolicy(retries, backoff_base).run(func) is entered.
InitRetry ==
    /\ QuotaInit
    /\ SideIdle
    /\ gate = [row |-> TRUE, completed |-> TRUE, lock |-> 0]
    /\ languages = <<"en", "ja">>
    /\ prompts = <<>>
    /\ proposer = IdleProposer
    /\ cf = [d \in Deliveries |-> IdleDelivery]
    /\ lc = IdleCommand
    /\ hist = NoHistory
    /\ pb = IdlePostback
    /\ rp \in {[IdleRetry EXCEPT !.status = "running", !.arg = r,
                              !.retries = ClampRetries(r), !.backoff = b] :
                  r \in RetryArgs, b \in BackoffArgs}

\* run: func() returns; its value is returned at once
RetryCallReturns(v) ==
    /\ rp.status = "running"
    /\ rp.attempt < rp.retries
    /\ rp' = [rp EXCEPT !.status = "returned", !.value = v, !.outs = Append(@, v)]
    /\ UNCHANGED <<enabled, quotaVars, enrollVars, pb, sideVars>>

\* run: func() raises; the error is remembered, the policy sleeps
\* backoff * (attempt + 1) unless this was the last attempt, and the loop
\* goes on
RetryCallRaises(exc) ==
    /\ rp.status = "running"
    /\ rp.attempt < rp.retries
    /\ LET sleep == rp.backoff * (rp.attempt + 1)
       IN rp' = [rp EXCEPT !.last_error = RecordError(@, exc),
                           !.outs = Append(@, exc),
                           !.sleeps = IF rp.attempt < rp.retries - 1 /\ sleep # 0
                                      THEN Append(@, sleep) ELSE @,
                           !.attempt = @ + 1]
    /\ UNCHANGED <<enabled, quotaVars, enrollVars, pb, sideVars>>

\* run: after the loop, "if last_error: raise last_error", else RuntimeError
RetryRaiseLast ==
    /\ rp.status = "running"
    /\ rp.attempt >= rp.retries
    /\ rp' = [rp EXCEPT !.status = "raised",
                        !.error = IF rp.last_error # None THEN rp.last_error ELSE "RuntimeError"]
    /\ UNCHANGED <<enabled, quotaVars, enrollVars, pb, sideVars>>

NextRetry ==
    \/ \E v \in RetryValues : RetryCallReturns(v)
    \/ \E exc \in TranslationErrors : RetryCallRaises(exc)
    \/ RetryRaiseLast

SpecRetry == InitRetry /\ [][NextRetry]_vars

\* Every call of the operation returns or raises, and the loop goes on.
SpecRetryFair == SpecRetry /\ WF_vars(NextRetry)

\* ======================================================== postback codec
\* Strings are sequences of code points, byte strings sequences of 0..255,
\* base64 text a sequence of sextet values with 64 for the "=" sign.
CodePoints == {97, 34, 92, 233, 12354}

Texts == UNION {[1..n -> CodePoints] : n \in 0..MaxTextLen}

OptionalTexts == {<<>>, <<97>>, <<233, 34>>}

Repeat(c, n) == [i \in 1..n |-> c]

\* A required text that cannot fit, and optional texts that fit after one
\* shortening or only after being dropped.
LongRequiredText == Repeat(97, 300)
LongOptionalTexts == {Repeat(97, 250), Repeat(12354, 100)}

\* The payloads: a dict with the key "a", or with "a" and "limit_text".
Payloads ==
    {<<<<"a", t>>>> : t \in Texts}
    \cup {<<<<"a", t>>, <<"limit_text", o>>>> : t \in Texts, o \in OptionalTexts}

\* The payloads of a prompt whose texts are long
LongPayloads ==
    {<<<<"a", LongRequiredText>>>>}
    \cup {<<<<"a", t>>, <<"limit_text", o>>>> :
             t \in {<<>>, LongRequiredText}, o \in LongOptionalTexts}

\* The keys of the payloads, as the characters of their names.
\* The literals of the prompt payloads
KindText == <<108, 97, 110, 103, 117, 97, 103, 101, 95, 99, 111, 110, 102, 105, 114, 109>>
ConfirmText == <<99, 111, 110, 102, 105, 114, 109>>
CancelText == <<99, 97, 110, 99, 101, 108>>
En == <<101, 110>>
Ja == <<106, 97>>

\* The languages of a prompt: one with an ASCII name, or two of which one
\* has a name that json.dumps escapes
LanguageLists ==
    {<<<<En, <<69, 110, 103, 108, 105, 115, 104>>>>>>,
     <<<<Ja, <<26085, 26412, 35486>>>>, <<En, <<69, 110, 103, 108, 105, 115, 104>>>>>>}

\* The pre-rendered texts of a prompt: none, short ones, ones that fit after
\* being shortened, and ones that only fit once dropped
PromptTexts == {<<>>, Repeat(97, 10), Repeat(97, 60), Repeat(97, 100), Repeat(12354, 40)}

\* A primary language of ordinary length, and one that alone is past the ceiling
PrimaryLanguages == {En, Repeat(97, 100)}

\* propose: the payload of the confirm button and the one of the cancel button
PromptPayloads ==
    {<<<<"kind", KindText>>, <<"action", ConfirmText>>, <<"languages", ls>>,
       <<"primary_language", pl>>, <<"completion_text", ct>>, <<"limit_text", lt>>>> :
         ls \in LanguageLists, pl \in PrimaryLanguages, ct \in PromptTexts, lt \in PromptTexts}
    \cup {<<<<"kind", KindText>>, <<"action", CancelText>>, <<"primary_language", pl>>,
            <<"cancel_text", ct>>>> : pl \in PrimaryLanguages, ct \in PromptTexts}

KeyTable ==
    <<<<"a", <<97>>>>,
      <<"limit_text", <<108, 105, 109, 105, 116, 95, 116, 101, 120, 116>>>>,
      <<"cancel_text", <<99, 97, 110, 99, 101, 108, 95, 116, 101, 120, 116>>>>,
      <<"completion_text", <<99, 111, 109, 112, 108, 101, 116, 105, 111, 110, 95, 116, 101, 120, 116>>>>,
      <<"kind", <<107, 105, 110, 100>>>>,
      <<"action", <<97, 99, 116, 105, 111, 110>>>>,
      <<"languages", <<108, 97, 110, 103, 117, 97, 103, 101, 115>>>>,
      <<"primary_language", <<112, 114, 105, 109, 97, 114, 121, 95, 108, 97, 110, 103, 117, 97, 103, 101>>>>>>

KeyChars(key) == (CHOOSE e \in {KeyTable[i] : i \in 1..Len(KeyTable)} : e[1] = key)[2]

HexDigit(n) == IF n < 10 THEN 48 + n ELSE 87 + n

\* json.dumps of one character of a string
EscapeChar(c, ensure_ascii) ==
    IF c = 34 THEN <<92, 34>>
    ELSE IF c = 92 THEN <<92, 92>>
    ELSE IF c < 128 \/ ~ensure_ascii THEN <<c>>
    ELSE <<92, 117, HexDigit(c \div 4096), HexDigit((c \div 256) % 16),
           HexDigit((c \div 16) % 16), HexDigit(c % 16)>>

\* The concatenation of a sequence of sequences
RECURSIVE Flatten(_)
Flatten(seqs) ==
    IF seqs = <<>> THEN <<>>
    ELSE IF Len(seqs) = 1 THEN seqs[1]
    ELSE LET half == Len(seqs) \div 2
         IN Flatten(SubSeq(seqs, 1, half)) \o Flatten(SubSeq(seqs, half + 1, Len(seqs)))

EscapeString(text, ensure_ascii) ==
    Flatten([i \in 1..Len(text) |-> EscapeChar(text[i], ensure_ascii)])

\* json.dumps of the list under "languages": its items are the dicts
\* {"code": ..., "name": ...}, here the pairs <<code, name>>
DumpLanguages(items, ensure_ascii) ==
    <<91>>
    \o Flatten([i \in 1..Len(items) |->
                  <<123, 34, 99, 111, 100, 101, 34, 58, 34>> \o EscapeString(items[i][1], ensure_ascii)
                  \o <<34, 44, 34, 110, 97, 109, 101, 34, 58, 34>> \o EscapeString(items[i][2], ensure_ascii)
                  \o <<34, 125>> \o (IF i < Len(items) THEN <<44>> ELSE <<>>)])
    \o <<93>>

\* json.dumps of one value: the list of languages, or a string
DumpValue(key, value, ensure_ascii) ==
    IF key = "languages" THEN DumpLanguages(value, ensure_ascii)
    ELSE <<34>> \o EscapeString(value, ensure_ascii) \o <<34>>

RECURSIVE DumpPairs(_, _)
DumpPairs(pairs, ensure_ascii) ==
    IF pairs = <<>> THEN <<>>
    ELSE <<34>> \o EscapeString(KeyChars(pairs[1][1]), ensure_ascii) \o <<34, 58>>
         \o DumpValue(pairs[1][1], pairs[1][2], ensure_ascii)
         \o (IF Len(pairs) > 1 THEN <<44>> ELSE <<>>)
         \o DumpPairs(Tail(pairs), ensure_ascii)

\* json.dumps(payload, separators=(",", ":"), ensure_ascii=...)
JsonDumps(payload, ensure_ascii) == <<123>> \o DumpPairs(payload, ensure_ascii) \o <<125>>

\* str.encode("utf-8") of one character
Utf8Char(c) ==
    IF c < 128 THEN <<c>>
    ELSE IF c < 2048 THEN <<192 + (c \div 64), 128 + (c % 64)>>
    ELSE <<224 + (c \div 4096), 128 + ((c \div 64) % 64), 128 + (c % 64)>>

\* str.encode("utf-8")
Utf8Encode(text) == Flatten([i \in 1..Len(text) |-> Utf8Char(text[i])])

IsContinuation(b) == b >= 128 /\ b < 192

\* The length of the UTF-8 sequence that the byte b opens; 0 for a byte that
\* opens none
Utf8Width(b) ==
    IF b < 128 THEN 1 ELSE IF b >= 194 /\ b < 224 THEN 2
    ELSE IF b >= 224 /\ b < 240 THEN 3 ELSE 0

\* The character of the UTF-8 sequence that starts at bytes[i]
Utf8CharAt(bytes, i) ==
    LET b == bytes[i]
        n == Utf8Width(b)
    IN IF n = 1 THEN b
       ELSE IF n = 2 THEN ((b - 192) * 64) + (bytes[i + 1] - 128)
       ELSE ((b - 224) * 4096) + ((bytes[i + 1] - 128) * 64) + (bytes[i + 2] - 128)

\* bytes[i] opens a well-formed UTF-8 sequence that ends where the next
\* one starts
Utf8WellFormedAt(bytes, i) ==
    LET n == Utf8Width(bytes[i])
    IN /\ n # 0
       /\ i + n - 1 <= Len(bytes)
       /\ \A k \in 1..(n - 1) : IsContinuation(bytes[i + k])
       /\ i + n <= Len(bytes) => ~IsContinuation(bytes[i + n])
       /\ n = 3 => Utf8CharAt(bytes, i) >= 2048

\* bytes.decode("utf-8"); ok is FALSE where Python raises UnicodeDecodeError
Utf8Decode(bytes) ==
    IF bytes = <<>> THEN [ok |-> TRUE, val |-> <<>>]
    ELSE IF IsContinuation(bytes[1])
            \/ \E i \in 1..Len(bytes) :
                  ~IsContinuation(bytes[i]) /\ ~Utf8WellFormedAt(bytes, i)
    THEN [ok |-> FALSE, val |-> <<>>]
    ELSE [ok |-> TRUE,
          val |-> Flatten([i \in 1..Len(bytes) |->
                             IF IsContinuation(bytes[i]) THEN <<>>
                             ELSE <<Utf8CharAt(bytes, i)>>])]

\* The sum of a sequence of numbers
RECURSIVE SumSeq(_)
SumSeq(nums) ==
    IF nums = <<>> THEN 0
    ELSE IF Len(nums) = 1 THEN nums[1]
    ELSE LET half == Len(nums) \div 2
         IN SumSeq(SubSeq(nums, 1, half)) + SumSeq(SubSeq(nums, half + 1, Len(nums)))

\* Adler-32 of a byte string, as its two 16-bit halves: each byte is added
\* to the first sum, and the first sum to the second after each byte
AdlerSums(bytes, a, b) ==
    LET n == Len(bytes)
    IN <<(a + SumSeq(bytes)) % 65521,
         (b + (n * a) + SumSeq([i \in 1..n |-> (n - i + 1) * bytes[i]])) % 65521>>

Adler32Bytes(bytes) ==
    LET sums == AdlerSums(bytes, 1, 0)
    IN <<sums[2] \div 256, sums[2] % 256, sums[1] \div 256, sums[1] % 256>>

\* zlib.compress: the two-byte header, the DEFLATE body, the Adler-32 of
\* the input.  The body is modelled as one stored block (final-block
\* flag, LEN, NLEN, the bytes).
ZlibCompress(raw) ==
    LET n == Len(raw)
    IN <<120, 1, 1, n % 256, n \div 256, 255 - (n % 256), 255 - (n \div 256)>>
       \o raw \o Adler32Bytes(raw)

\* zlib.decompress; ok is FALSE where Python raises zlib.error
ZlibDecompress(blob) ==
    IF Len(blob) < 11 \/ blob[1] # 120 \/ ((blob[1] * 256) + blob[2]) % 31 # 0 \/ blob[3] # 1
    THEN [ok |-> FALSE, val |-> <<>>]
    ELSE LET n == blob[4] + (256 * blob[5])
         IN IF blob[6] # 255 - blob[4] \/ blob[7] # 255 - blob[5] \/ Len(blob) # n + 11
            THEN [ok |-> FALSE, val |-> <<>>]
            ELSE LET data == SubSeq(blob, 8, 7 + n)
                 IN IF SubSeq(blob, 8 + n, 11 + n) = Adler32Bytes(data)
                    THEN [ok |-> TRUE, val |-> data]
                    ELSE [ok |-> FALSE, val |-> <<>>]

\* base64.urlsafe_b64encode: three bytes give four sextets; a last group
\* of one or two bytes is filled with "=" (64)
B64Group(bytes) ==
    IF Len(bytes) = 1
    THEN <<bytes[1] \div 4, (bytes[1] % 4) * 16, 64, 64>>
    ELSE IF Len(bytes) = 2
    THEN <<bytes[1] \div 4, ((bytes[1] % 4) * 16) + (bytes[2] \div 16), (bytes[2] % 16) * 4, 64>>
    ELSE <<bytes[1] \div 4, ((bytes[1] % 4) * 16) + (bytes[2] \div 16),
           ((bytes[2] % 16) * 4) + (bytes[3] \div 64), bytes[3] % 64>>

B64Encode(bytes) ==
    Flatten([g \in 1..((Len(bytes) + 2) \div 3) |->
               B64Group(SubSeq(bytes, (3 * g) - 2,
                               IF 3 * g < Len(bytes) THEN 3 * g ELSE Len(bytes)))])

\* str.rstrip("=")
RECURSIVE RStripPad(_)
RStripPad(token) ==
    IF token # <<>> /\ token[Len(token)] = 64 THEN RStripPad(SubSeq(token, 1, Len(token) - 1))
    ELSE token

\* Variant: decode without restoring the padding
PaddingNone(token_len) == 0

\* decode_postback_payload: padding = "=" * (-len(token) % 4)
Padding(token_len) == (4 - (token_len % 4)) % 4

\* base64.urlsafe_b64decode of one group of four characters; "=" may end
\* the last group only
B64Quad(q, last) ==
    LET b1 == (q[1] * 4) + (q[2] \div 16)
        b2 == ((q[2] % 16) * 16) + (q[3] \div 4)
        b3 == ((q[3] % 4) * 64) + q[4]
    IN IF q[1] = 64 \/ q[2] = 64 THEN [ok |-> FALSE, val |-> <<>>]
       ELSE IF q[3] = 64
       THEN IF q[4] = 64 /\ last THEN [ok |-> TRUE, val |-> <<b1>>]
            ELSE [ok |-> FALSE, val |-> <<>>]
       ELSE IF q[4] = 64
       THEN IF last THEN [ok |-> TRUE, val |-> <<b1, b2>>] ELSE [ok |-> FALSE, val |-> <<>>]
       ELSE [ok |-> TRUE, val |-> <<b1, b2, b3>>]

\* base64.urlsafe_b64decode; ok is FALSE where Python raises binascii.Error
B64Decode(token) ==
    LET n == Len(token) \div 4
        quads == [g \in 1..n |-> B64Quad(SubSeq(token, (4 * g) - 3, 4 * g), g = n)]
    IN IF Len(token) % 4 # 0 \/ \E g \in 1..n : ~quads[g].ok
       THEN [ok |-> FALSE, val |-> <<>>]
       ELSE [ok |-> TRUE, val |-> Flatten([g \in 1..n |-> quads[g].val])]

IsHex(c) == (c >= 48 /\ c <= 57) \/ (c >= 97 /\ c <= 102) \/ (c >= 65 /\ c <= 70)

HexVal(c) == IF c <= 57 THEN c - 48 ELSE IF c >= 97 THEN c - 87 ELSE c - 55

\* json.loads, a string that starts at s[i]: s[j] is the second character
\* of an escape, i.e. an odd number of backslashes stands right before it
Escaped(s, i, j) ==
    /\ j > i
    /\ s[j - 1] = 92
    /\ LET k0 == CHOOSE k \in (i - 1)..(j - 1) :
                    /\ k = i - 1 \/ s[k] # 92
                    /\ \A m \in (k + 1)..(j - 1) : s[m] = 92
       IN (j - 1 - k0) % 2 = 1

\* the position of the quote that closes the string, 0 when there is none
StringEnd(s, i) ==
    LET quotes == {j \in i..Len(s) : s[j] = 34 /\ ~Escaped(s, i, j)}
    IN IF quotes = {} THEN 0 ELSE CHOOSE j \in quotes : \A m \in quotes : j <= m

\* json.loads, a string: s[i] is the character after the opening quote
ParseString(s, i, acc) ==
    LET end == StringEnd(s, i)
        Escape(j) == s[j] = 92 /\ ~Escaped(s, i, j)
        Valid(j) == Escape(j) =>
                       \/ s[j + 1] \in {34, 92}
                       \/ /\ s[j + 1] = 117
                          /\ j + 5 <= Len(s)
                          /\ \A k \in 2..5 : IsHex(s[j + k])
        InHex(j) == \E k \in 2..5 : j - k >= i /\ Escape(j - k) /\ s[j - k + 1] = 117
        Char(j) == IF Escape(j)
                   THEN IF s[j + 1] = 117
                        THEN <<(HexVal(s[j + 2]) * 4096) + (HexVal(s[j + 3]) * 256)
                               + (HexVal(s[j + 4]) * 16) + HexVal(s[j + 5])>>
                        ELSE <<s[j + 1]>>
                   ELSE IF Escaped(s, i, j) \/ InHex(j) THEN <<>> ELSE <<s[j]>>
    IN IF end = 0 \/ \E j \in i..(end - 1) : ~Valid(j)
       THEN [ok |-> FALSE, val |-> <<>>, next |-> i]
       ELSE [ok |-> TRUE,
             val |-> acc \o Flatten([k \in 1..(end - i) |-> Char(i + k - 1)]),
             next |-> end + 1]

KeyName(chars) ==
    IF \E i \in 1..Len(KeyTable) : KeyTable[i][2] = chars
    THEN (CHOOSE e \in {KeyTable[i] : i \in 1..Len(KeyTable)} : e[2] = chars)[1]
    ELSE "?"

StartsAt(s, i, lit) == i + Len(lit) - 1 <= Len(s) /\ SubSeq(s, i, i + Len(lit) - 1) = lit

NoValue(i) == [ok |-> FALSE, val |-> <<>>, next |-> i]

\* json.loads, one {"code": ..., "name": ...} dict that starts at s[i], its
\* code and its name being parsed; next is the position after its brace
LanguageItem(s, i, code, name) ==
    IF ~name.ok \/ name.next > Len(s) \/ s[name.next] # 125 THEN NoValue(i)
    ELSE [ok |-> TRUE, val |-> <<code.val, name.val>>, next |-> name.next + 1]

LanguageName(s, i, code) ==
    IF ~code.ok \/ ~StartsAt(s, code.next, <<44, 34, 110, 97, 109, 101, 34, 58, 34>>) THEN NoValue(i)
    ELSE LanguageItem(s, i, code, ParseString(s, code.next + 9, <<>>))

ParseLanguage(s, i) ==
    IF ~StartsAt(s, i, <<123, 34, 99, 111, 100, 101, 34, 58, 34>>) THEN NoValue(i)
    ELSE LanguageName(s, i, ParseString(s, i + 9, <<>>))

\* json.loads, a list of such dicts: s[i] is the character after the "[" or
\* after the "," that follows an item; next is the position after the "]"
RECURSIVE ParseLanguages(_, _, _)
LanguagesAfter(s, i, acc, item) ==
    IF ~item.ok \/ item.next > Len(s) THEN NoValue(i)
    ELSE IF s[item.next] = 93
    THEN [ok |-> TRUE, val |-> Append(acc, item.val), next |-> item.next + 1]
    ELSE IF s[item.next] = 44 THEN ParseLanguages(s, item.next + 1, Append(acc, item.val))
    ELSE NoValue(i)

ParseLanguages(s, i, acc) ==
    IF i <= Len(s) /\ s[i] = 93 /\ acc = <<>> THEN [ok |-> TRUE, val |-> <<>>, next |-> i + 1]
    ELSE LanguagesAfter(s, i, acc, ParseLanguage(s, i))

\* json.loads, the members of an object: s[i] is the quote that opens a
\* key; the key and then its value are parsed
RECURSIVE ParsePairs(_, _, _)
MemberValue(s, acc, key, val) ==
    IF ~val.ok \/ val.next > Len(s) THEN [ok |-> FALSE, val |-> <<>>]
    ELSE IF s[val.next] = 44
    THEN ParsePairs(s, val.next + 1, Append(acc, <<KeyName(key.val), val.val>>))
    ELSE IF s[val.next] = 125 /\ val.next = Len(s)
    THEN [ok |-> TRUE, val |-> Append(acc, <<KeyName(key.val), val.val>>)]
    ELSE [ok |-> FALSE, val |-> <<>>]

MemberKey(s, acc, key) ==
    IF ~key.ok \/ key.next + 1 > Len(s) \/ s[key.next] # 58 \/ s[key.next + 1] \notin {34, 91}
    THEN [ok |-> FALSE, val |-> <<>>]
    ELSE MemberValue(s, acc, key, IF s[key.next + 1] = 34
                                    THEN ParseString(s, key.next + 2, <<>>)
                                    ELSE ParseLanguages(s, key.next + 2, <<>>))

ParsePairs(s, i, acc) ==
    IF i > Len(s) \/ s[i] # 34 THEN [ok |-> FALSE, val |-> <<>>]
    ELSE MemberKey(s, acc, ParseString(s, i + 1, <<>>))

\* json.loads of an object whose members are strings or the list of languages
JsonLoads(s) ==
    IF Len(s) < 2 \/ s[1] # 123 THEN [ok |-> FALSE, val |-> <<>>]
    ELSE IF s = <<123, 125>> THEN [ok |-> TRUE, val |-> <<>>]
    ELSE ParsePairs(s, 2, <<>>)

\* len("langpref2=") and len("subctrl=")
PrefixLen(scheme) == IF scheme = "langpref2" THEN 10 ELSE 8

\* _encode_postback_payload._encode: json.dumps (ASCII only), utf-8,
\* zlib.compress, urlsafe base64 without the padding
EncodeCompressed(payload) ==
    RStripPad(B64Encode(ZlibCompress(Utf8Encode(JsonDumps(payload, TRUE)))))

\* encode_subscription_payload: json.dumps (ensure_ascii=False), utf-8,
\* urlsafe base64 without the padding
EncodeSubscriptionPayload(payload) ==
    RStripPad(B64Encode(Utf8Encode(JsonDumps(payload, FALSE))))

Fits(scheme, token) == PrefixLen(scheme) + Len(token) <= MaxBytes

\* Variant: the optional texts are given up in the reverse order
OptionalKeysReversed == <<"completion_text", "cancel_text", "limit_text">>

\* optional_keys = ("limit_text", "cancel_text", "completion_text")
OptionalKeys == <<"limit_text", "cancel_text", "completion_text">>

\* "key in payload"
HasKey(payload, key) == \E i \in 1..Len(payload) : payload[i][1] = key

\* The payload without one optional text ("payload.pop(key, None)")
WithoutOptional(payload, key) == SelectSeq(payload, LAMBDA pair : pair[1] # key)

\* _shrink_text: payload[key] = text[:max(int(len(text) * 0.6), 32)]
ShrinkText(text) ==
    LET scaled == (Len(text) * 6) \div 10
        new_len == IF scaled > 32 THEN scaled ELSE 32
    IN SubSeq(text, 1, IF new_len < Len(text) THEN new_len ELSE Len(text))

\* _shrink_text applied to one optional text of the payload; changed tells
\* whether the key was there with a non-empty text
Shrink(payload, key) ==
    [payload |-> [i \in 1..Len(payload) |->
                    IF payload[i][1] = key
                    THEN <<key, ShrinkText(payload[i][2])>> ELSE payload[i]],
     changed |-> \E i \in 1..Len(payload) : payload[i][1] = key /\ payload[i][2] # <<>>]

\* Variant: the last resort returns the encoding uncut
TruncateNot(encoded) == encoded

\* _encode_postback_payload: encoded[:max_bytes]
Truncate(encoded) ==
    SubSeq(encoded, 1, IF Len(encoded) < MaxBytes - PrefixLen("langpref2")
                       THEN Len(encoded) ELSE MaxBytes - PrefixLen("langpref2"))

\* _encode_postback_payload, the loops "for key in optional_keys" and
\* "for _ in range(3)" from the k-th key and its round number round on:
\* shorten, encode, return what fits, stop when nothing was there to
\* shorten; then (round 4) drop the key and encode again; with no key left,
\* what still does not fit is cut at max_bytes
RECURSIVE ShrinkRounds(_, _, _)
ShrinkRounds(payload, k, round) ==
    IF k > Len(OptionalKeys)
    THEN [token |-> Truncate(EncodeCompressed(payload)), payload |-> payload, cut |-> TRUE]
    ELSE LET key == OptionalKeys[k] IN
         IF round <= 3
         THEN LET s == Shrink(payload, key)
                  encoded == EncodeCompressed(s.payload)
              IN IF Fits("langpref2", encoded)
                 THEN [token |-> encoded, payload |-> s.payload, cut |-> FALSE]
                 ELSE IF s.changed /\ round < 3 THEN ShrinkRounds(s.payload, k, round + 1)
                 ELSE ShrinkRounds(s.payload, k, 4)
         ELSE IF HasKey(payload, key)
         THEN LET reduced == WithoutOptional(payload, key)
                  popped == EncodeCompressed(reduced)
              IN IF Fits("langpref2", popped)
                 THEN [token |-> popped, payload |-> reduced, cut |-> FALSE]
                 ELSE ShrinkRounds(reduced, k + 1, 1)
         ELSE ShrinkRounds(payload, k + 1, 1)

\* _encode_postback_payload: the encoding if it fits max_bytes; otherwise
\* the shortened, reduced or cut one.  payload is the dict as the function
\* leaves it, cut tells that the last resort was taken.
EncodePostbackPayload(payload) ==
    LET encoded == EncodeCompressed(payload)
    IN IF Fits("langpref2", encoded)
       THEN [token |-> encoded, shrunk |-> FALSE, payload |-> payload, cut |-> FALSE]
       ELSE LET r == ShrinkRounds(payload, 1, 1)
            IN [token |-> r.token, shrunk |-> TRUE, payload |-> r.payload, cut |-> r.cut]

\* decode_postback_payload for the two prefixes; ok is FALSE for None
DecodePostbackPayload(scheme, token) ==
    LET pad == Padding(Len(token))
        blob == B64Decode(token \o [i \in 1..pad |-> 64])
        plain == IF scheme = "langpref2" /\ blob.ok THEN ZlibDecompress(blob.val) ELSE blob
        decoded == IF plain.ok THEN Utf8Decode(plain.val) ELSE plain
    IN IF decoded.ok THEN JsonLoads(decoded.val) ELSE [ok |-> FALSE, val |-> <<>>]

\* A payload is about to be encoded under one of the two schemes.
InitCodec ==
    /\ QuotaInit
    /\ SideIdle
    /\ gate = [row |-> TRUE, completed |-> TRUE, lock |-> 0]
    /\ languages = <<"en", "ja">>
    /\ prompts = <<>>
    /\ proposer = IdleProposer
    /\ cf = [d \in Deliveries |-> IdleDelivery]
    /\ lc = IdleCommand
    /\ hist = NoHistory
    /\ rp = IdleRetry
    /\ pb \in {[IdlePostback EXCEPT !.pc = "new", !.scheme = scheme, !.payload = payload] :
                  scheme \in {"langpref2", "subctrl"}, payload \in Payloads}
             \cup {[IdlePostback EXCEPT !.pc = "new", !.scheme = "langpref2",
                                        !.payload = payload] :
                  payload \in LongPayloads \cup PromptPayloads}

\* propose builds the token of a prompt button
EncodeEnrollment ==
    /\ pb.pc = "new" /\ pb.scheme = "langpref2"
    /\ LET r == EncodePostbackPayload(pb.payload)
       IN pb' = [pb EXCEPT !.pc = "encoded", !.token = r.token, !.shrunk = r.shrunk,
                           !.final = r.payload, !.cut = r.cut]
    /\ UNCHANGED <<enabled, quotaVars, enrollVars, rp, sideVars>>

\* the subscription menu builds the token of a button
EncodeSubscription ==
    /\ pb.pc = "new" /\ pb.scheme = "subctrl"
    /\ pb' = [pb EXCEPT !.pc = "encoded", !.token = EncodeSubscriptionPayload(pb.payload),
                        !.final = pb.payload]
    /\ UNCHANGED <<enabled, quotaVars, enrollVars, rp, sideVars>>

\* PostbackHandler.handle: the data of the postback event is decoded
DecodePostback ==
    /\ pb.pc = "encoded"
    /\ pb' = [pb EXCEPT !.pc = "decoded", !.decoded = DecodePostbackPayload(pb.scheme, pb.token)]
    /\ UNCHANGED <<enabled, quotaVars, enrollVars, rp, sideVars>>

NextCodec == EncodeEnrollment \/ EncodeSubscription \/ DecodePostback

SpecCodec == InitCodec /\ [][NextCodec]_vars

\* ------------------------------------------------ decoding foreign data
\* Byte strings that are no payload: nothing, a lone brace, a byte that is
\* no UTF-8, an unterminated string, and the empty object.
RawGarbage == {<<>>, <<123>>, <<255>>, <<123, 34, 97>>, <<123, 125>>}

\* Tokens as they can arrive: well-formed base64 of such bytes, compressed
\* or not, the same with the last character lost, and a lone character.
GarbageTokens ==
    LET whole == {RStripPad(B64Encode(raw)) : raw \in RawGarbage}
                 \cup {RStripPad(B64Encode(ZlibCompress(raw))) : raw \in RawGarbage}
    IN whole \cup {SubSeq(t, 1, Len(t) - 1) : t \in whole \ {<<>>}} \cup {<<1>>}

\* What stands before the first "=" of the data, or the whole data when it
\* has no "=".
DataPrefixes == {"", "langpref", "langpref2", "langprefX", "subctrl", "other"}

\* The postback data: prefix, whether an "=" follows, and what follows it.
GarbageData ==
    {[prefix |-> p, eq |-> TRUE, token |-> t] : p \in DataPrefixes, t \in GarbageTokens}
    \cup {[prefix |-> p, eq |-> FALSE, token |-> <<>>] : p \in DataPrefixes}

\* data.startswith("langpref")
StartsWithLangpref(prefix) == prefix \in {"langpref", "langpref2", "langprefX"}

\* decode_postback_payload on any data: raised names the exception that
\* leaves the function; ok is FALSE for None.  "prefix, token =
\* data.split("=", 1)" stands before the try block.
DecodePostbackData(prefix, eq, token) ==
    IF prefix = "" /\ ~eq
    THEN [raised |-> None, ok |-> FALSE, val |-> <<>>]
    ELSE IF StartsWithLangpref(prefix)
    THEN IF ~eq THEN [raised |-> "ValueError", ok |-> FALSE, val |-> <<>>]
         ELSE LET r == DecodePostbackPayload(prefix, token)
              IN [raised |-> None, ok |-> r.ok, val |-> r.val]
    ELSE IF prefix = "subctrl" /\ eq
    THEN LET r == DecodePostbackPayload("subctrl", token)
         IN [raised |-> None, ok |-> r.ok, val |-> r.val]
    ELSE [raised |-> None, ok |-> FALSE, val |-> <<>>]

\* A postback event with arbitrary data has arrived.
InitDecode ==
    /\ QuotaInit
    /\ SideIdle
    /\ gate = [row |-> TRUE, completed |-> TRUE, lock |-> 0]
    /\ languages = <<"en", "ja">>
    /\ prompts = <<>>
    /\ proposer = IdleProposer
    /\ cf = [d \in Deliveries |-> IdleDelivery]
    /\ lc = IdleCommand
    /\ hist = NoHistory
    /\ rp = IdleRetry
    /\ pb \in {[IdlePostback EXCEPT !.pc = "arrived", !.scheme = g.prefix, !.eq = g.eq,
                                     !.token = g.token] : g \in GarbageData}

\* PostbackHandler.handle: "if not event.data: return", else
\* decode_postback_payload(event.data)
DecodeData ==
    /\ pb.pc = "arrived"
    /\ LET r == DecodePostbackData(pb.scheme, pb.eq, pb.token)
       IN pb' = IF pb.scheme = "" /\ ~pb.eq
                THEN [pb EXCEPT !.pc = "handled", !.handled = "ignored"]
                ELSE [pb EXCEPT !.pc = "decoded_data", !.raised = r.raised,
                                !.decoded = [ok |-> r.ok, val |-> r.val]]
    /\ UNCHANGED <<enabled, quotaVars, enrollVars, rp, sideVars>>

\* PostbackHandler.handle: an exception of decode leaves the handler; no
\* payload, an empty payload or a payload of no known kind is ignored
HandleDecoded ==
    /\ pb.pc = "decoded_data"
    /\ pb' = [pb EXCEPT !.pc = "handled",
                        !.handled = IF pb.raised # None THEN "raised" ELSE "ignored"]
    /\ UNCHANGED <<enabled, quotaVars, enrollVars, rp, sideVars>>

NextDecode == DecodeData \/ HandleDecoded

SpecDecode == InitDecode /\ [][NextDecode]_vars

\* ------------------------------------------------- translation gateway
\* The candidate language codes of a call, the empty code among them
GatewayCodes == {"", "en", "EN", "ja", "fr"}

GatewayCandidates ==
    {<<>>} \cup {<<a>> : a \in GatewayCodes}
    \cup {<<a, b>> : a, b \in GatewayCodes}
    \cup {<<a, b, c>> : a, b, c \in GatewayCodes}

\* detect_language: a code of langdetect, or "" when detection fails
DetectedLanguages == {"", "en", "ja"}

\* Variant: the source language is compared as written
SameLanguageExact(lang, detected_lang) == lang = detected_lang

\* translate: lang.lower() != detected_lang.lower(), negated
SameLanguage(lang, detected_lang) == Lower(lang) = Lower(detected_lang)

\* translate: [lang for lang in candidate_languages
\*             if lang and lang.lower() != detected_lang.lower()]
FilterTargets(candidate_languages, detected_lang) ==
    SelectSeq(candidate_languages,
              LAMBDA lang : lang # "" /\ ~SameLanguage(lang, detected_lang))

\* list(dict.fromkeys(filtered_targets)): the first occurrence of each item
DictFromKeys(items) ==
    LET firsts == [i \in 1..Len(items) |->
                     IF \E j \in 1..(i - 1) : items[j] = items[i] THEN <<>> ELSE <<items[i]>>]
    IN Flatten(firsts)

InitGateway ==
    /\ QuotaInit
    /\ gate = [row |-> TRUE, completed |-> TRUE, lock |-> 0]
    /\ languages = <<"en", "ja">>
    /\ prompts = <<>>
    /\ proposer = IdleProposer
    /\ cf = [d \in Deliveries |-> IdleDelivery]
    /\ lc = IdleCommand
    /\ hist = NoHistory
    /\ rp = IdleRetry
    /\ pb = IdlePostback
    /\ lv = IdleLeave
    /\ tg \in {[IdleGateway EXCEPT !.pc = "called", !.candidates = c, !.detected = d] :
                  c \in GatewayCandidates, d \in DetectedLanguages}

\* TranslationService.translate: no target is left after filtering
GatewayReturnEmpty ==
    /\ tg.pc = "called"
    /\ FilterTargets(tg.candidates, tg.detected) = <<>>
    /\ tg' = [tg EXCEPT !.pc = "returned", !.result = "empty"]
    /\ UNCHANGED <<enabled, quotaVars, enrollVars, rp, pb, lv>>

\* TranslationService.translate: the port is called with the targets
GatewayCallPort ==
    /\ tg.pc = "called"
    /\ FilterTargets(tg.candidates, tg.detected) # <<>>
    /\ tg' = [tg EXCEPT !.pc = "returned", !.result = "port",
                        !.targets = DictFromKeys(FilterTargets(tg.candidates, tg.detected)),
                        !.calls = @ + 1]
    /\ UNCHANGED <<enabled, quotaVars, enrollVars, rp, pb, lv>>

NextGateway == GatewayReturnEmpty \/ GatewayCallPort

SpecGateway == InitGateway /\ [][NextGateway]_vars

\* ------------------------------------------------------- leave events
\* What a call of cancel_subscription does: it cancels and returns True,
\* returns False, or raises (reading the subscription row is outside its
\* try block)
CancelOutcomes == {"true", "false", "raise"}

\* SubscriptionService.cancel_subscription: without a subscription id it
\* returns False before Stripe is called
CancelSubscription(row, outcome) == IF row = SubNone THEN "false" ELSE outcome

\* Variant: the loop goes on after a call that returned True
LeaveReturnsNever(result) == FALSE

\* LeaveHandler.handle: "if result: ... return"
LeaveReturns(result) == result = "true"

InitLeave ==
    /\ usage = [k \in PeriodKeys |-> 0]
    /\ noticePlan = [k \in PeriodKeys |-> None]
    /\ sub \in SubChoices
    /\ enabled = IsPaid(sub.status)
    /\ now = Clock0
    /\ wk = [w \in Workers |-> IdleWorker]
    /\ handled = 0
    /\ noticeCount = [k \in PeriodKeys |-> [p \in Plans |-> 0]]
    /\ markerSets = [k \in PeriodKeys |-> [p \in Plans |-> 0]]
    /\ atUpgrade = NoUpgrade
    /\ gate = [row |-> TRUE, completed |-> TRUE, lock |-> 0]
    /\ languages = <<"en", "ja">>
    /\ prompts = <<>>
    /\ proposer = IdleProposer
    /\ cf = [d \in Deliveries |-> IdleDelivery]
    /\ lc = IdleCommand
    /\ hist = NoHistory
    /\ rp = IdleRetry
    /\ pb = IdlePostback
    /\ tg = IdleGateway
    /\ lv \in {[IdleLeave EXCEPT !.pc = "received", !.has_group = g, !.outs = o] :
                  g \in BOOLEAN, o \in [1..LeaveAttempts -> CancelOutcomes]}

\* LeaveHandler.handle: an event without a group id is ignored; otherwise
\* reset_limit_notice_plan is called, which the repository does not define:
\* the AttributeError is caught and logged
LeaveStart ==
    /\ lv.pc = "received"
    /\ lv' = IF ~lv.has_group THEN [lv EXCEPT !.pc = "done", !.result = "ignored"]
             ELSE [lv EXCEPT !.pc = "cancel", !.reset = "AttributeError"]
    /\ UNCHANGED <<enabled, quotaVars, enrollVars, rp, pb, tg>>

\* LeaveHandler.handle: one round of the loop; a successful
\* cancel_subscription has written the status and disabled translation
LeaveCancel ==
    /\ lv.pc = "cancel"
    /\ lv.attempt < LeaveAttempts
    /\ LET result == CancelSubscription(sub, lv.outs[lv.attempt + 1])
           called == [lv EXCEPT !.attempt = @ + 1, !.results = Append(@, result)]
       IN /\ lv' = IF result = "raise" THEN [called EXCEPT !.pc = "done", !.result = "raised"]
                   ELSE IF LeaveReturns(result)
                   THEN [called EXCEPT !.pc = "done", !.result = "cancelled"]
                   ELSE called
          /\ sub' = IF result = "true" THEN [sub EXCEPT !.status = "canceled"] ELSE sub
          /\ enabled' = IF result = "true" THEN FALSE ELSE enabled
    /\ UNCHANGED <<usage, noticePlan, now, wk, handled, noticeCount, markerSets, atUpgrade,
                   enrollVars, rp, pb, tg>>

\* LeaveHandler.handle: the loop is over, "gave up after retries"
LeaveGiveUp ==
    /\ lv.pc = "cancel"
    /\ lv.attempt >= LeaveAttempts
    /\ lv' = [lv EXCEPT !.pc = "done",
                        !.result = IF lv.result = None THEN "gave_up" ELSE lv.result]
    /\ UNCHANGED <<enabled, quotaVars, enrollVars, rp, pb, tg>>

NextLeave == LeaveStart \/ LeaveCancel \/ LeaveGiveUp

SpecLeave == InitLeave /\ [][NextLeave]_vars

\* ================================================================ properties
Ran(w, act) == act \in wk[w].acts

\* The invocation has an allowed decision and its translation call ended
\* in an exception / in zero results / in at least one result.
TranslationRaised(w) == wk[w].decision.allowed /\ wk[w].trExc # None
TranslationEmpty(w) == wk[w].decision.allowed /\ wk[w].trOut = "empty"
TranslationSucceeded(w) == wk[w].decision.allowed /\ wk[w].trOut = "results"

\* C1: when the ledger allowed and incremented and the translation call made
\* through the retry policy ends in an exception, run decrements the counter by
\* the increment just applied and the same exception propagates: the net change
\* of the run is 0 and, with no other invocation in between, the counter is
\* back at its value before run.
C1_RollbackOnException ==
    \A w \in Workers :
        (wk[w].pc = "done" /\ TranslationRaised(w)) =>
            /\ wk[w].exc = wk[w].trExc
            /\ wk[w].delta = 0
            /\ (wk[w].alone => usage[wk[w].period_key] = wk[w].pre)

\* C2: when the ledger allowed and the translation returns zero results, the
\* counter is rolled back by the increment and run returns normally with a
\* null reply.
C2_RollbackOnEmpty ==
    \A w \in Workers :
        (wk[w].pc = "done" /\ TranslationEmpty(w)) =>
            /\ wk[w].exc = None
            /\ wk[w].returned /\ wk[w].reply = "null"
            /\ wk[w].delta = 0
            /\ (wk[w].alone => usage[wk[w].period_key] = wk[w].pre)

\* C3: a run in which evaluate allows the message and the translation returns
\* at least one result returns a non-null reply and has added exactly 1 to the
\* counter of the decision's period key; with no other invocation of the
\* tenant in between, the counter is its previous value plus 1.
C3_SuccessCountsOne ==
    \A w \in Workers :
        TranslationSucceeded(w) =>
            /\ wk[w].returned /\ wk[w].reply # "null"
            /\ wk[w].delta = 1
            /\ (wk[w].alone => usage[wk[w].decision.period_key] = wk[w].pre + 1)

C3_Witness ==
    \E w \in Workers :
        /\ TranslationSucceeded(w) /\ wk[w].alone /\ wk[w].pc = "done"
        /\ wk[w].pre = 1 /\ usage[wk[w].decision.period_key] = 2

\* C4: the try_complete calls made for the tenant while its gate is not
\* re-opened (one gate epoch), sequential or concurrent, with the same or
\* different language lists: at most one reports completed, exactly one once
\* any of them has returned (unless a cancel closed the gate first), the
\* persisted languages are exactly the list of
\* the call that completed, and a call that reports not completed changed
\* neither the languages nor the completed-at marker.
C4_CompleteExactlyOnce ==
    /\ \A e \in Epochs : hist.completions[e] <= 1
    /\ \A d \in Deliveries :
         (cf[d].kind = "confirm" /\ cf[d].result # None /\ hist.cancels[cf[d].epoch] = 0)
            => hist.completions[cf[d].epoch] = 1
    /\ \A d \in Deliveries : cf[d].result = "not_completed" => ~cf[d].wrote
    /\ hist.completions[hist.epoch] = 1 => languages = hist.winner[hist.epoch]

C4_Witness ==
    \E d1, d2 \in Deliveries :
        /\ cf[d1].pc = "done" /\ cf[d2].pc = "done"
        /\ cf[d1].epoch = cf[d2].epoch
        /\ cf[d1].result = "completed" /\ cf[d2].result = "not_completed"
        /\ cf[d1].tuples # cf[d2].tuples
        /\ languages = cf[d1].tuples

\* C5: over the deliveries of a confirm token within one gate epoch, in any
\* interleaving, the completion message is produced at most once and
\* translation is enabled at most once, exactly once when the deliveries of
\* the epoch have all finished (and no cancel closed the gate first); a
\* duplicate delivery replies nothing and
\* writes neither the languages nor the translation-enabled flag.
C5_ConfirmOnce ==
    /\ \A e \in Epochs : hist.enables[e] <= 1 /\ hist.messages[e] <= 1
    /\ \A d \in Deliveries :
         (cf[d].pc = "done" /\ cf[d].result = "not_completed") => (cf[d].reply = None /\ ~cf[d].wrote)
    /\ \A e \in Epochs :
         ((\E d \in Deliveries : cf[d].kind = "confirm" /\ cf[d].epoch = e /\ cf[d].result # None)
            /\ hist.cancels[e] = 0
            /\ (\A d \in Deliveries : cf[d].epoch = e => cf[d].pc = "done"))
         => (hist.enables[e] = 1 /\ hist.messages[e] = 1)

C5_Witness ==
    \E d1, d2 \in Deliveries :
        /\ cf[d1].pc = "done" /\ cf[d2].pc = "done"
        /\ cf[d1].token >= 1 /\ cf[d2].token = cf[d1].token
        /\ cf[d1].epoch = cf[d2].epoch
        /\ cf[d1].reply = "completion" /\ cf[d2].reply = None
        /\ hist.enables[cf[d1].epoch] = 1 /\ hist.messages[cf[d1].epoch] = 1
        /\ enabled

\* C6: evaluate whose increment finds the counter at limit - 1, with the
\* marker it read different from planKey, takes the counter to exactly limit
\* and returns allowed and shouldNotify, for paid and unpaid tenants alike.
C6_ThresholdAllowsAndNotifies ==
    \A w \in Workers :
        (Ran(w, "increment") /\ wk[w].pre = wk[w].limit - 1 /\ wk[w].notice_plan # wk[w].plan_key) =>
            /\ wk[w].decision.allowed
            /\ wk[w].decision.should_notify
            /\ ~wk[w].decision.stop_translation
            /\ wk[w].decision.usage = wk[w].limit
            /\ wk[w].delta = 1

C6_Witness ==
    /\ \E w \in Workers :
         /\ Ran(w, "increment") /\ wk[w].pre = wk[w].limit - 1
         /\ wk[w].paid /\ wk[w].decision.should_notify
    /\ \E w \in Workers :
         /\ Ran(w, "increment") /\ wk[w].pre = wk[w].limit - 1
         /\ ~wk[w].paid /\ wk[w].decision.should_notify

\* C7: evaluate that reads a stored usage >= limit returns allowed = false with
\* shouldNotify = (marker # planKey) and does not increment; no translation is
\* attempted for the message.
C7_AtLimitRefuses ==
    \A w \in Workers :
        (wk[w].current_usage >= wk[w].limit /\ wk[w].current_usage >= 0) =>
            /\ wk[w].decided /\ ~wk[w].decision.allowed
            /\ wk[w].decision.should_notify = (wk[w].notice_plan # wk[w].plan_key)
            /\ wk[w].decision.usage = wk[w].current_usage
            /\ wk[w].delta = 0
            /\ ~Ran(w, "increment") /\ ~Ran(w, "translate")
            /\ wk[w].reply = "null"

C7_Witness ==
    \E w \in Workers :
        /\ wk[w].pc = "done" /\ wk[w].current_usage >= wk[w].limit /\ wk[w].paid
        /\ wk[w].decision.should_notify

\* C8: for an unpaid tenant whose stored marker already equals planKey,
\* evaluate refuses without notifying and mutates nothing; the handler sends
\* no notice, calls no translation and writes neither counter, marker nor flag.
C8_NotifiedFreeShortCircuits ==
    \A w \in Workers :
        (wk[w].current_usage >= 0 /\ ~wk[w].paid /\ wk[w].notice_plan = wk[w].plan_key) =>
            /\ wk[w].decided
            /\ ~wk[w].decision.allowed
            /\ ~wk[w].decision.should_notify
            /\ wk[w].delta = 0
            /\ wk[w].acts = {}
            /\ wk[w].pc \in {"refused", "done"}

C8_Witness ==
    \E w \in Workers :
        /\ wk[w].pc = "done" /\ wk[w].decided
        /\ ~wk[w].paid /\ wk[w].notice_plan = "free" /\ wk[w].plan_key = "free"

\* C9: for every period and plan tier, over any interleaving of concurrently
\* processed messages, the limit-reached notice of the tier is sent at most
\* once and the marker is set to the tier at most once.
C9_NoticeAtMostOnce ==
    \A k \in PeriodKeys, p \in Plans : noticeCount[k][p] <= 1 /\ markerSets[k][p] <= 1

\* C10: a tenant notified at the free-plan limit and then upgraded to paid
\* (no invocation in flight at the upgrade) gets no further free-plan notice
\* in that period and exactly one pro-plan notice when the pro limit is
\* reached, after which the marker is "pro".
C10_PlanSwitchDedup ==
    atUpgrade.free >= 1 =>
        /\ noticeCount[MonthFirst(DateOf(now))]["free"] = atUpgrade.free
        /\ noticeCount[atUpgrade.key]["pro"] <= atUpgrade.pro + 1
        /\ (AllIdle /\ noticeCount[atUpgrade.key]["pro"] = atUpgrade.pro + 1)
               => noticePlan[atUpgrade.key] = "pro"

\* C11: a delivery of a confirm or cancel token that had already been
\* consumed when it arrived is a no-op: it completes nothing, cancels
\* nothing, writes nothing and replies nothing, whatever proposals, resets
\* and re-invites happened in between.
C11_ConsumedTokenNoOp ==
    \A d \in Deliveries :
        cf[d].stale =>
            /\ cf[d].result \notin {"completed", "cancelled"}
            /\ cf[d].reply = None
            /\ ~cf[d].wrote

\* The deliveries that have reached the gate all belong to epoch e and
\* have finished, and no proposal is in flight.
OnlyEpochDone(e) ==
    /\ hist.epoch = e
    /\ proposer.pc \in {"idle", "done"}
    /\ \A d \in Deliveries : cf[d].pc # "idle" => (cf[d].pc = "done" /\ cf[d].epoch \in {e, -1})

\* C12: for one prompt (one gate epoch), over every interleaving of confirm
\* and cancel deliveries, at most one of the two closes the gate, and exactly
\* one once a delivery has returned from the gate.  If the cancel wins, no
\* completion happens, the cancel text is replied once, and afterwards no
\* language is stored and translation is disabled.  If the confirm wins, no
\* cancel disables translation or replies, and a cancel that lost replies
\* nothing and writes nothing.
C12_ConfirmXorCancel ==
    /\ \A e \in Epochs :
         /\ hist.completions[e] + hist.cancels[e] <= 1
         /\ (\E d \in Deliveries : cf[d].epoch = e /\ cf[d].result # None)
               => hist.completions[e] + hist.cancels[e] = 1
         /\ hist.disables[e] <= hist.cancels[e]
         /\ hist.cancelTexts[e] <= hist.cancels[e]
         /\ hist.enables[e] <= hist.completions[e]
         /\ hist.messages[e] <= hist.completions[e]
         /\ (hist.cancels[e] = 1 /\ OnlyEpochDone(e))
               => /\ hist.cancelTexts[e] = 1
                  /\ hist.disables[e] = 1
                  /\ languages = <<>>
                  /\ ~enabled
    /\ \A d \in Deliveries :
         (cf[d].pc = "done" /\ cf[d].result \in {"not_cancelled", "not_completed"})
            => (cf[d].reply = None /\ ~cf[d].wrote)

C12_Witness ==
    \E d1, d2 \in Deliveries :
        /\ cf[d1].kind = "cancel" /\ cf[d1].result = "cancelled" /\ cf[d1].reply = "cancel"
        /\ cf[d2].kind = "confirm" /\ cf[d2].result = "not_completed" /\ cf[d2].pc = "done"
        /\ cf[d1].pc = "done" /\ cf[d1].epoch = cf[d2].epoch
        /\ OnlyEpochDone(cf[d1].epoch)
        /\ languages = <<>> /\ ~enabled

\* The number of distinct languages the analyzer detected, supported and
\* unsupported together.
DistinctDetected(supported, unsupported) ==
    Cardinality({Lower(supported[i]) : i \in 1..Len(supported)}
                \cup {Lower(unsupported[i]) : i \in 1..Len(unsupported)})

C14_ConfirmOverLimit ==
    \A d \in Deliveries :
        (cf[d].kind = "confirm" /\ Len(cf[d].tuples) > MaxGroupLanguages)
            => /\ cf[d].pc = "done"
               /\ cf[d].reply = "limit_warning"
               /\ cf[d].result = None
               /\ cf[d].epoch = -1
               /\ ~cf[d].wrote

C14_Witness ==
    \E d \in Deliveries :
        /\ cf[d].kind = "confirm" /\ cf[d].token = 0
        /\ Len(cf[d].tuples) > MaxGroupLanguages
        /\ cf[d].reply = "limit_warning"
        /\ prompts # <<>> /\ ~gate.completed /\ languages = <<>> /\ ~enabled

\* C15: when the analyzer raises or returns nothing, the step that ends
\* propose replies the fixed fallback text and changes no tenant state:
\* the enabled flag, the gate, the languages and the prompts stay as they
\* were, so the tenant still has no language and its next message is
\* routed to propose again.
C15_AnalyzerFailureFallback ==
    [][(/\ proposer.pc = "analyzed"
        /\ proposer.outcome \in {"empty", "raise"}
        /\ proposer'.pc = "done")
          => /\ proposer'.reply = "fallback"
             /\ proposer'.acts = {}
             /\ UNCHANGED <<enabled, gate, languages, prompts, hist>>]_vars

C15_Witness ==
    /\ proposer.pc = "done"
    /\ proposer.outcome = "empty"
    /\ proposer.reply = "fallback"
    /\ languages = <<>> /\ prompts = <<>> /\ enabled /\ ~gate.row

\* C16: in every reachable state the stored language set has at most the
\* maximum number of codes, and a language command that was rejected for
\* exceeding the maximum has written nothing.
C16_LanguageLimit ==
    /\ Len(languages) <= MaxGroupLanguages
    /\ (lc.pc = "cmd_done" /\ lc.reply = "limit_message") => ~lc.wrote

\* The outcomes of the calls made so far that are errors.
IsError(outcome) == outcome \in TranslationErrors

\* C17: once a call of the operation has raised the provider rate-limit
\* error, the retry policy calls the operation no more, and the run ends by
\* raising that error.
C17_TerminalErrorNotRetried ==
    \A i \in 1..Len(rp.outs) :
        rp.outs[i] = "GeminiRateLimitError"
            => /\ i = Len(rp.outs)
               /\ rp.status = "raised" => rp.error = "GeminiRateLimitError"
               /\ rp.status # "returned"

\* C18: RetryPolicy.run calls the operation at least once and at most
\* max(1, retries) times; the first call that succeeds is the last one and
\* its result is what run returns; every run ends, returning or raising.
C18_BoundedAttempts ==
    /\ [](LET bound == IF rp.arg > 1 THEN rp.arg ELSE 1
               calls == Len(rp.outs)
           IN /\ calls <= bound
              /\ rp.status \in {"returned", "raised"} => calls >= 1
              /\ \A i \in 1..calls : ~IsError(rp.outs[i]) =>
                    (i = calls /\ rp.status = "returned" /\ rp.value = rp.outs[i])
              /\ rp.status = "returned" => (calls >= 1 /\ ~IsError(rp.outs[calls])))
    /\ <>(rp.status \in {"returned", "raised"})

C18_Witness ==
    /\ rp.arg = 0
    /\ rp.status = "returned"
    /\ Len(rp.outs) = 1

\* C19: a run in which every attempt failed raises the error of the final
\* attempt and returns no value; run raises only in that case.
C19_LastErrorRaised ==
    LET bound == IF rp.arg > 1 THEN rp.arg ELSE 1
        calls == Len(rp.outs)
    IN /\ rp.status = "raised"
            => /\ calls = bound
               /\ \A i \in 1..calls : IsError(rp.outs[i])
               /\ rp.error = rp.outs[calls]
               /\ rp.value = None
       /\ rp.status = "returned" => rp.error = None

C19_Witness ==
    /\ rp.status = "raised"
    /\ Len(rp.outs) = 3
    /\ rp.outs[1] = "Timeout" /\ rp.outs[2] = "GeminiRateLimitError" /\ rp.outs[3] = "RuntimeError"
    /\ rp.error = "RuntimeError"

\* C20: a payload whose encoding fits the byte ceiling without shrinking
\* is decoded to itself, under the compressed enrollment scheme and under
\* the uncompressed subscription scheme.
C20_RoundTrip ==
    (pb.pc = "decoded" /\ ~pb.shrunk /\ Fits(pb.scheme, pb.token))
        => (pb.decoded.ok /\ pb.decoded.val = pb.payload)

C20_Witness ==
    /\ pb.pc = "decoded"
    /\ pb.scheme = "langpref2"
    /\ ~pb.shrunk
    /\ (Len(pb.token) % 4) # 0
    /\ pb.payload = <<<<"a", <<12354>>>>, <<"limit_text", <<233, 34>>>>>>
    /\ pb.decoded.val = pb.payload

\* C21: decoding never raises, whatever the data: every input that is no
\* payload gives "no payload", and the handler ends by ignoring the event.
C21_DecodeNeverRaises ==
    /\ pb.raised = None
    /\ pb.handled # "raised"
    /\ (pb.pc \in {"decoded_data", "handled"} /\ (~pb.eq \/ pb.scheme \in {"", "other"}))
          => ~pb.decoded.ok

\* C22: the token of the enrollment scheme, with its prefix, is never
\* longer than the byte ceiling, however long the optional and the required
\* texts of the payload are.
C22_EncodeSizeBound ==
    (pb.pc \in {"encoded", "decoded"} /\ pb.scheme = "langpref2")
        => PrefixLen("langpref2") + Len(pb.token) <= MaxBytes

C22_Witness ==
    /\ pb.pc = "encoded" /\ pb.scheme = "langpref2"
    /\ pb.payload = <<<<"a", LongRequiredText>>, <<"limit_text", Repeat(12354, 100)>>>>
    /\ pb.shrunk
    /\ PrefixLen("langpref2") + Len(pb.token) = MaxBytes

\* C23: the targets handed to the translation port hold no code equal,
\* ignoring case, to the detected source language and no code twice, hold
\* every other non-empty candidate, and keep the order of the first
\* occurrences; with no target left the result is empty and the port is
\* not called.
FirstIndex(items, x) == CHOOSE i \in 1..Len(items) : items[i] = x /\ \A j \in 1..(i - 1) : items[j] # x

IsTarget(lang) == lang # "" /\ Lower(lang) # Lower(tg.detected)

C23_GatewayFiltersTargets ==
    tg.pc = "returned" =>
        /\ tg.result = "empty" <=> ~\E i \in 1..Len(tg.candidates) : IsTarget(tg.candidates[i])
        /\ tg.result = "empty" => (tg.calls = 0 /\ tg.targets = <<>>)
        /\ tg.result = "port" =>
              /\ tg.calls = 1
              /\ \A i \in 1..Len(tg.targets) :
                    /\ IsTarget(tg.targets[i])
                    /\ \E j \in 1..Len(tg.candidates) : tg.candidates[j] = tg.targets[i]
              /\ \A i \in 1..Len(tg.candidates) :
                    IsTarget(tg.candidates[i])
                        => \E j \in 1..Len(tg.targets) : tg.targets[j] = tg.candidates[i]
              /\ \A i, j \in 1..Len(tg.targets) :
                    i < j => /\ tg.targets[i] # tg.targets[j]
                             /\ FirstIndex(tg.candidates, tg.targets[i])
                                   < FirstIndex(tg.candidates, tg.targets[j])

C23_Witness ==
    /\ tg.pc = "returned"
    /\ tg.candidates = <<"fr", "EN", "fr">>
    /\ tg.detected = "en"
    /\ tg.targets = <<"fr">>
    /\ tg.calls = 1

\* C24: an invocation fetches the message history and calls the
\* translation port only after evaluate returned an allowed decision; on
\* a decision that is not allowed run has returned a null reply, and that
\* invocation fetched no history, called no translation and rolled
\* nothing back.
C24_TranslateOnlyWhenAllowed ==
    \A w \in Workers :
        /\ (Ran(w, "fetch") \/ Ran(w, "translate") \/ wk[w].calls > 0
               \/ wk[w].pc \in {"translate", "rollback"})
              => (wk[w].decided /\ wk[w].decision.allowed)
        /\ (wk[w].decided /\ ~wk[w].decision.allowed)
              => /\ wk[w].returned /\ wk[w].reply = "null"
                 /\ ~Ran(w, "fetch") /\ ~Ran(w, "translate") /\ ~Ran(w, "rollback")
                 /\ wk[w].calls = 0
                 /\ wk[w].trOut = None /\ wk[w].trExc = None

C24_Witness ==
    \E w, v \in Workers :
        /\ wk[w].pc = "done" /\ wk[w].decided /\ wk[w].decision.allowed
        /\ Ran(w, "translate") /\ wk[w].calls > 0
        /\ wk[v].pc = "done" /\ wk[v].decided /\ ~wk[v].decision.allowed
        /\ Ran(v, "increment") /\ wk[v].reply = "null"

\* C25: an invocation whose translation ended with the rate-limit error of
\* the provider has sent the throttling notice when it ends.
C25_RateLimitNotice ==
    \A w \in Workers :
        (wk[w].pc = "done" /\ wk[w].trExc = "GeminiRateLimitError")
            => Ran(w, "rate_limit_notice")

\* C26: an invocation whose read of the translation-enabled flag failed in
\* the datastore has gone on to the translation flow: it has a quota
\* decision when it ends.
C26_FlagReadFailsOpen ==
    \A w \in Workers :
        (wk[w].pc = "done" /\ wk[w].flagExc # None) => wk[w].decided

\* C27: a usage counter is never negative, and a step changes it only by
\* +1 when an invocation runs the increment of evaluate on that period key
\* or by -1 when the invocation that made the increment runs its rollback;
\* setting the notice marker, a plan change and the resume command leave
\* every counter as it is.
C27_UsageChangesOnlyByIncrement ==
    /\ [](\A k \in PeriodKeys : usage[k] >= 0)
    /\ [][\A k \in PeriodKeys :
            usage'[k] # usage[k] =>
                \E w \in Workers :
                    /\ wk[w].period_key = k
                    /\ wk'[w].pc # wk[w].pc
                    /\ \/ wk[w].pc = "eval_inc" /\ usage'[k] = usage[k] + 1
                       \/ /\ wk[w].pc = "rollback" /\ Ran(w, "increment")
                          /\ usage'[k] = usage[k] - 1]_vars

C27_Witness ==
    \E k \in PeriodKeys, w \in Workers :
        /\ usage[k] = 1
        /\ markerSets[k]["free"] > 0
        /\ sub # SubNone
        /\ wk[w].pc = "done" /\ wk[w].trExc # None /\ Ran(w, "increment")
        /\ wk[w].period_key = k

\* C28: a decision of evaluate that stops translation is a refusal made
\* for an unpaid tenant; an invocation that evaluated a paid tenant never
\* disables translation, whatever the usage.
C28_StopOnlyUnpaid ==
    \A w \in Workers :
        wk[w].decided =>
            /\ wk[w].decision.stop_translation
                  => (~wk[w].decision.allowed /\ ~wk[w].paid /\ wk[w].decision.plan_key = "free")
            /\ Ran(w, "disable") => ~wk[w].paid

C28_Witness ==
    \E w \in Workers :
        /\ wk[w].pc = "done" /\ wk[w].decided
        /\ wk[w].decision.stop_translation /\ ~wk[w].decision.allowed /\ ~wk[w].paid
        /\ Ran(w, "disable")

\* C29: evaluate takes as period key the date of the billing-period start
\* of a paid tenant (the period end minus 31 days when the start is
\* absent) and the first day of the current month for an unpaid tenant;
\* and an increment made for a paid tenant leaves the counter of the unpaid
\* plan, the one of the current month, unchanged.
C29_PeriodKeyAnchors ==
    /\ [][\A w \in Workers :
            (wk[w].pc = "evaluate" /\ wk'[w].pc = "eval_usage") =>
                wk'[w].period_key =
                    IF IsPaid(sub.status)
                    THEN IF sub.period_start # NoDate THEN sub.period_start.day
                         ELSE sub.period_end.day - FallbackDays
                    ELSE MonthFirst(now.day)]_vars
    /\ [][\A w \in Workers :
            (wk[w].pc = "eval_inc" /\ wk'[w].pc # "eval_inc" /\ wk[w].paid) =>
                usage'[MonthFirst(now.day)] = usage[MonthFirst(now.day)]]_vars

\* C30: a leave event with a group id makes at most three calls of
\* cancel_subscription and none after the first call that returned True;
\* a leave event without a group id makes none.
C30_LeaveCancelAttempts ==
    /\ Len(lv.results) <= 3
    /\ \A i \in 1..(Len(lv.results) - 1) : lv.results[i] # "true"
    /\ ~lv.has_group => lv.results = <<>>
    /\ (lv.pc = "done" /\ lv.result = "gave_up") => lv.results = <<"false", "false", "false">>

C30_Witness ==
    /\ lv.pc = "done"
    /\ lv.has_group
    /\ lv.outs = <<"false", "true", "true">>
    /\ lv.results = <<"false", "true">>
    /\ sub.status = "canceled" /\ ~enabled

\* C31: an invocation that has ended has added 1 to the usage counter if
\* run returned a non-null reply and nothing otherwise: a refusal, a failed
\* history fetch, a failed or zero-result translation leave no net
\* increment.
C31_UsageCountsReplies ==
    \A w \in Workers :
        wk[w].pc = "done" =>
            wk[w].delta = (IF wk[w].returned /\ wk[w].reply # "null" THEN 1 ELSE 0)

\* The counter of the invocation is written under one limit only: the
\* tenant never changed its plan, or the key is the anchor of a paid period.
OneLimitKey(w) == sub = SubNone \/ wk[w].period_key # MonthFirst(DateOf(now))

\* C32: with the invocations of the tenant running concurrently, an
\* increment of evaluate takes the counter at most (number of concurrent
\* invocations - 1) above the limit, and of two invocations that both read
\* usage = limit - 1 before incrementing at most one is allowed.
C32_BoundedOvershoot ==
    \A w \in Workers :
        (Ran(w, "increment") /\ OneLimitKey(w)) =>
            /\ wk[w].decision.usage <= wk[w].limit + (Cardinality(Workers) - 1)
            /\ usage[wk[w].period_key] <= wk[w].limit + (Cardinality(Workers) - 1)
            /\ \A v \in Workers \ {w} :
                  (/\ Ran(v, "increment") /\ wk[v].period_key = wk[w].period_key
                   /\ wk[v].limit = wk[w].limit
                   /\ wk[v].current_usage = wk[v].limit - 1
                   /\ wk[w].current_usage = wk[w].limit - 1)
                      => ~(wk[v].decision.allowed /\ wk[w].decision.allowed)

C32_Witness ==
    \E w, v \in Workers :
        /\ w # v /\ Ran(w, "increment") /\ Ran(v, "increment")
        /\ OneLimitKey(w) /\ wk[v].period_key = wk[w].period_key
        /\ wk[w].current_usage = wk[w].limit - 1 /\ wk[v].current_usage = wk[v].limit - 1
        /\ wk[w].decision.allowed /\ ~wk[v].decision.allowed
        /\ wk[v].decision.usage = wk[v].limit + 1
        /\ usage[wk[w].period_key] = wk[w].limit + 1

\* C33: once a worker has crashed between the committed completion write of
\* confirm and set_translation_enabled(True), the redelivery of the same
\* confirm event eventually leaves translation enabled.
Redelivered(d) ==
    /\ cf[d].pc = "crashed"
    /\ \E r \in Deliveries : r > d /\ cf[r].kind = "confirm" /\ cf[r].token = cf[d].token

C33_RedeliveryEnables == (\E d \in Deliveries : Redelivered(d)) ~> enabled

\* C34: a step of propose never changes the stored languages and never
\* enables translation; it marks the tenant prompted (the completed-at marker
\* cleared) exactly when the invocation emits the confirmation prompt, and
\* the step that returns the prompt leaves translation disabled.
ProposeStep == proposer' # proposer

C34_ProposeFrame ==
    /\ [][ProposeStep =>
            /\ languages' = languages
            /\ enabled' => enabled
            /\ gate' # gate => hist'.epoch # hist.epoch
            /\ hist'.epoch # hist.epoch <=>
                  ("record_prompt" \in proposer'.acts /\ "record_prompt" \notin proposer.acts)
            /\ hist'.epoch # hist.epoch => (gate'.row /\ ~gate'.completed)
            /\ (proposer'.reply = "prompt" /\ proposer.reply # "prompt") => ~enabled']_vars
    /\ [](proposer.pc = "done" =>
            (("record_prompt" \in proposer.acts) <=> (proposer.reply = "prompt")))

C34_Witness ==
    /\ proposer.pc = "done" /\ proposer.reply = "prompt"
    /\ hist.epoch = 2 /\ hist.cancels[1] = 1
    /\ gate.row /\ ~gate.completed /\ ~enabled /\ languages = <<>>

\* C35: the confirm token of a prompt carries exactly the supported
\* languages of the analysis, lower-cased, each once, in analyzer order, no
\* unsupported language and at most the maximum of codes; a confirm of such
\* a token that finds the gate open is not refused for its count and stores
\* exactly that list.
LoweredCodes(langs) == {Lower(langs[i]) : i \in 1..Len(langs)} \ {""}

FirstAt(langs, code) == CHOOSE i \in 1..Len(langs) :
    /\ Lower(langs[i]) = code
    /\ \A j \in 1..(i - 1) : Lower(langs[j]) # code

CarriesExactly(list, supported) ==
    /\ {list[i] : i \in 1..Len(list)} = LoweredCodes(supported)
    /\ \A i, j \in 1..Len(list) :
          i < j => FirstAt(supported, list[i]) < FirstAt(supported, list[j])

PassedTotalCheck ==
    /\ proposer.pc \in {"analyzed", "recorded", "done"}
    /\ ~AnalysisFailed(proposer.outcome)
    /\ ~DetectedOverLimit(proposer.supported, proposer.unsupported)

C40_CapDropsNothing ==
    PassedTotalCheck =>
        /\ DroppedLanguageChoices(proposer.supported, {}, 0) = <<>>
        /\ proposer.reply \in {None, "prompt", "unsupported_message"}

C40_Witness ==
    /\ PassedTotalCheck /\ proposer.pc = "recorded"
    /\ Len(proposer.supported) + Len(proposer.unsupported) = MaxGroupLanguages
    /\ Len(LimitLanguageChoices(proposer.supported, {}, <<>>)) = MaxGroupLanguages

\* C39: when a propose for a second message runs concurrently with the
\* confirm of the pending prompt, the tenant never ends with the language set
\* stored by the confirm while the late propose has re-opened the gate and
\* left translation disabled.
EnrollmentQuiet ==
    /\ proposer.pc \in {"idle", "done"}
    /\ \A d \in Deliveries : cf[d].pc \in {"idle", "done"}

C39_ConfirmVersusLatePropose ==
    EnrollmentQuiet =>
        ~(/\ \E d \in Deliveries : cf[d].result = "completed" /\ languages = cf[d].tuples
          /\ proposer.reply = "prompt"
          /\ gate.row /\ ~gate.completed
          /\ ~enabled)

\* C38: in every reachable state, also with several messages of the tenant
\* in flight, a period whose notified-plan marker names plan P has a usage of
\* at least the limit of P, and a period in which a quota decision disabled
\* translation has a usage of at least the limit of that decision; the
\* rollback of a concurrent failed run does not undercut either.
PlanLimit(plan) == IF plan = "pro" THEN ProQuota ELSE FreeQuota

PriorityOrder == <<"limit_text", "cancel_text", "completion_text">>

IsOptional(key) == key \in {"limit_text", "cancel_text", "completion_text"}

RequiredOf(payload) == SelectSeq(payload, LAMBDA pair : ~IsOptional(pair[1]))

ValueOf(payload, key) == payload[CHOOSE i \in 1..Len(payload) : payload[i][1] = key][2]

CutLen(n) == IF (6 * n) \div 10 > 32 THEN (6 * n) \div 10 ELSE IF n < 32 THEN n ELSE 32

CutLens(n) == <<n, CutLen(n), CutLen(CutLen(n)), CutLen(CutLen(CutLen(n)))>>

\* What was encoded while the k-th optional text had its first n
\* characters: the earlier optional texts are gone, the later ones whole
Candidate(in, k, n) ==
    LET kept == SelectSeq(in, LAMBDA pair :
                    \A j \in 1..(k - 1) : pair[1] # PriorityOrder[j])
    IN [i \in 1..Len(kept) |->
          IF kept[i][1] = PriorityOrder[k]
          THEN <<kept[i][1], SubSeq(kept[i][2], 1, n)>> ELSE kept[i]]

Altered(in, out, key) ==
    HasKey(in, key) /\ (~HasKey(out, key) \/ ValueOf(out, key) # ValueOf(in, key))

C36_EncodeShrinksOptionalOnly ==
    (pb.pc \in {"encoded", "decoded"} /\ pb.scheme = "langpref2") =>
        LET in == pb.payload
            out == pb.final
        IN /\ RequiredOf(out) = RequiredOf(in)
           /\ ~pb.shrunk => (out = in /\ pb.token = EncodeCompressed(in))
           /\ ~pb.cut => (pb.token = EncodeCompressed(out) /\ Fits("langpref2", pb.token))
           /\ pb.cut => (out = RequiredOf(in) /\ ~Fits("langpref2", EncodeCompressed(out)))
           /\ \A k \in 1..Len(PriorityOrder) :
                 LET key == PriorityOrder[k] IN
                 /\ HasKey(out, key) =>
                       /\ HasKey(in, key)
                       /\ LET lens == CutLens(Len(ValueOf(in, key)))
                              n == Len(ValueOf(out, key))
                          IN /\ \E c \in 1..4 : lens[c] = n
                             /\ ValueOf(out, key) = SubSeq(ValueOf(in, key), 1, n)
                             /\ n < Len(ValueOf(in, key)) =>
                                   LET c == CHOOSE c \in 2..4 : lens[c] = n /\ lens[c - 1] # n
                                   IN ~Fits("langpref2",
                                            EncodeCompressed(Candidate(in, k, lens[c - 1])))
                 /\ (HasKey(in, key) /\ ~HasKey(out, key)) =>
                       ~Fits("langpref2",
                             EncodeCompressed(Candidate(in, k, CutLens(Len(ValueOf(in, key)))[4])))
                 /\ (\E j \in (k + 1)..Len(PriorityOrder) : Altered(in, out, PriorityOrder[j]))
                       => ~HasKey(out, key)

C36_Witness ==
    /\ pb.pc = "encoded" /\ pb.scheme = "langpref2" /\ pb.shrunk /\ ~pb.cut
    /\ HasKey(pb.payload, "limit_text") /\ ValueOf(pb.payload, "limit_text") = Repeat(97, 10)
    /\ ~HasKey(pb.final, "limit_text")
    /\ ValueOf(pb.payload, "completion_text") = Repeat(97, 100)
    /\ ValueOf(pb.final, "completion_text") = Repeat(97, 36)
    /\ ValueOf(pb.final, "languages") = ValueOf(pb.payload, "languages")

\* C37: every token that encode returns decodes to a payload whose members
\* kind, action and languages are those of the input, also when optional
\* texts were shortened or dropped and when the token was cut at the ceiling.
C37_TokenKeepsRequired ==
    (pb.pc = "decoded" /\ pb.scheme = "langpref2") =>
        /\ pb.decoded.ok
        /\ \A key \in {"kind", "action", "languages"} :
              HasKey(pb.payload, key) =>
                  /\ HasKey(pb.decoded.val, key)
                  /\ ValueOf(pb.decoded.val, key) = ValueOf(pb.payload, key)

====
